---------------------------- MODULE Spec2Model ----------------------------
(***************************************************************************)
(* Admin console front end: the HTTP error-classification pipeline         *)
(* (web/src/utils/errorHandler.js, react-web/src/utils/request.js, the     *)
(* interceptors of the Vue client), the login flow and the token-gated     *)
(* router, the error handlers (GlobalErrorHandler, useErrorHandler,        *)
(* createApiWrapper) and the menu builders.                                *)
(*                                                                         *)
(* Specifications: SpecFn applies the pure functions to every input, Spec  *)
(* is the session, SpecUi the handler registry, SpecCall the API calls of  *)
(* a page, SpecMenu the navigation menu, SpecPage the list page of the     *)
(* APIs with an image uploader (SpecPageFair: every request is answered),  *)
(* SpecList the fetches of that list, SpecDept the department page,        *)
(* SpecDrawer the permission drawer of the roles, SpecTabs the tabs of the *)
(* layout, SpecHook the calls whose catch block uses handleError, and      *)
(* SpecRoute the two route tables (SpecRouteFair: a <Navigate> acts).      *)
(*                                                                         *)
(* JavaScript values are modelled as follows.                              *)
(*   - An object is a record; a property that is undefined or null is a    *)
(*     field that is absent from the record's DOMAIN.                      *)
(*   - localStorage.getItem returns NoItem for a missing key.              *)
(*   - The message strings of the source are Chinese text; each is         *)
(*     replaced by an ASCII string of the same meaning.                    *)
(***************************************************************************)
EXTENDS Integers, Sequences, FiniteSets, TLC

VARIABLES
    token,        \* localStorage 'token' (NoItem when absent)
    userInfo,     \* localStorage 'userInfo' (NoItem when absent)
    pathname,     \* window.location.pathname of the current document
    pendingHref,  \* window.location.href assigned, document not yet replaced
    page,         \* element the router renders: "Login" or "Layout"
    inflight,     \* requests sent and not yet answered
    nextId,       \* next request id of the current document
    loginPc,      \* position of Login.onFinish
    loading,      \* Login's loading flag
    lastExchange, \* the HTTP exchange completed last, and what its handler did
    lastNav,      \* the route resolution performed last
    err,          \* input of the error functions: an axios outcome
    dflt,         \* input of the error functions: the caller's default message
    now,          \* the clock read by createStandardError
    out,          \* result of the function applied last
    handlers,     \* GlobalErrorHandler.handlers: error type -> handler
    defaultHandler, \* GlobalErrorHandler.defaultHandler (NoItem when null)
    regLog,       \* the register and setDefault calls made so far, in order
    messageApi,   \* the messageApi the handlers of errorInit.js were made with
    menus,        \* the menu records of the backend, in creation order
    menuItems,    \* Layout's menuItems state
    apiPage,      \* the state of the ApiManagement page
    events,       \* number of user events the page has handled
    latest,       \* the list request issued last, and how it ended
    uploader,     \* the state of an ImageUploader
    depts,        \* the department records of the backend
    deptPage,     \* the state of the department page
    rolePerms,    \* the permissions of each role, as the backend holds them
    drawer,       \* the state of the permission drawer of the role page
    tabs,         \* Layout's tabs state
    activeTab     \* Layout's activeTab state

vars == <<token, userInfo, pathname, pendingHref, page, inflight, nextId, loginPc,
          loading, lastExchange, lastNav, err, dflt, now, out,
          handlers, defaultHandler, regLog, messageApi, menus, menuItems,
          apiPage, events, latest, uploader, depts, deptPage, rolePerms,
          drawer, tabs, activeTab>>

sessionVars == <<page, inflight, nextId, loginPc, loading, lastExchange, lastNav>>
storageVars == <<token, userInfo, pathname, pendingHref>>
fnVars == <<err, dflt, now, out>>
registryVars == <<handlers, defaultHandler, regLog, messageApi>>
menuVars == <<menus, menuItems>>
pageVars == <<apiPage, events, latest, uploader>>
deptVars == <<depts, deptPage>>
drawerVars == <<rolePerms, drawer>>
tabVars == <<tabs, activeTab>>
compVars == <<pageVars, deptVars, drawerVars, tabVars>>
uiVars == <<registryVars, menuVars, compVars>>

NoItem == "null"

---------------------------------------------------------------------------
(* Bounds of the model *)

\* number of requests one document issues
MaxRequests == 3
\* largest clock value
MaxClock == 1

---------------------------------------------------------------------------
(* web/src/utils/errorHandler.js *)

BUSINESS_ERROR == "business_error"
NETWORK_ERROR == "network_error"
AUTH_ERROR == "auth_error"
SYSTEM_ERROR == "system_error"

ERROR_TYPES == {BUSINESS_ERROR, NETWORK_ERROR, AUTH_ERROR, SYSTEM_ERROR}

ERROR_CODE_MAP ==
    (400 :> "bad request parameters") @@
    (401 :> "login expired, please log in again") @@
    (403 :> "no permission") @@
    (404 :> "resource does not exist") @@
    (405 :> "method not allowed") @@
    (408 :> "request timeout") @@
    (422 :> "data validation failed") @@
    (429 :> "too many requests") @@
    (500 :> "internal server error") @@
    (502 :> "bad gateway") @@
    (503 :> "service unavailable") @@
    (504 :> "gateway timeout")

BUSINESS_ERROR_CODES == <<400, 422, 409, 412>>
AUTH_ERROR_CODES == <<401, 403>>
SYSTEM_ERROR_CODES == <<500, 502, 503, 504>>

\* Array.prototype.includes
includes(arr, x) == \E i \in 1..Len(arr) : arr[i] = x

\* obj.f is neither undefined nor null
Has(obj, f) == f \in DOMAIN obj

\* obj.f is truthy, for a string property
TruthyStr(obj, f) == Has(obj, f) /\ obj[f] # ""

\* data = null is the absent field
createStandardError(type, message, code, originalError, data) ==
    LET base == [type |-> type, message |-> message, code |-> code,
                 originalError |-> originalError, timestamp |-> now]
    IN  IF data = <<>> THEN base ELSE base @@ ("data" :> data[1])

\* fault variant of getErrorType: 403 is not an auth code
getErrorType_Only401(error) ==
    IF ~Has(error, "response") THEN NETWORK_ERROR
    ELSE IF error.response.status = 401 THEN AUTH_ERROR
    ELSE IF includes(BUSINESS_ERROR_CODES, error.response.status) THEN BUSINESS_ERROR
    ELSE IF includes(SYSTEM_ERROR_CODES, error.response.status) THEN SYSTEM_ERROR
    ELSE BUSINESS_ERROR

\* fault variant of getErrorType: a status on the error itself stands in for a response
getErrorType_StatusFirst(error) ==
    LET status == IF Has(error, "response") THEN error.response.status ELSE error.status
    IN  IF ~Has(error, "response") /\ ~Has(error, "status") THEN NETWORK_ERROR
        ELSE IF includes(AUTH_ERROR_CODES, status) THEN AUTH_ERROR
        ELSE IF includes(BUSINESS_ERROR_CODES, status) THEN BUSINESS_ERROR
        ELSE IF includes(SYSTEM_ERROR_CODES, status) THEN SYSTEM_ERROR
        ELSE BUSINESS_ERROR

getErrorType(error) ==
    IF ~Has(error, "response") THEN NETWORK_ERROR
    ELSE LET status == error.response.status
         IN  IF includes(AUTH_ERROR_CODES, status) THEN AUTH_ERROR
             ELSE IF includes(BUSINESS_ERROR_CODES, status) THEN BUSINESS_ERROR
             ELSE IF includes(SYSTEM_ERROR_CODES, status) THEN SYSTEM_ERROR
             ELSE BUSINESS_ERROR

\* response is <<>> when the caller passes undefined, <<r>> otherwise
\* fault variant of extractErrorMessage: the status-code map is consulted first
extractErrorMessage_MapFirst(response, defaultMessage) ==
    IF response = <<>> \/ ~Has(response[1], "data") THEN defaultMessage
    ELSE LET data == response[1].data
             status == response[1].status
         IN  IF status \in DOMAIN ERROR_CODE_MAP THEN ERROR_CODE_MAP[status]
             ELSE IF TruthyStr(data, "msg") THEN data.msg
             ELSE IF TruthyStr(data, "message") THEN data.message
             ELSE IF TruthyStr(data, "detail") THEN data.detail
             ELSE defaultMessage

\* fault variant of extractErrorMessage: the status-code map is never consulted
extractErrorMessage_NoMap(response, defaultMessage) ==
    IF response = <<>> \/ ~Has(response[1], "data") THEN defaultMessage
    ELSE LET data == response[1].data
         IN  IF TruthyStr(data, "msg") THEN data.msg
             ELSE IF TruthyStr(data, "message") THEN data.message
             ELSE IF TruthyStr(data, "detail") THEN data.detail
             ELSE defaultMessage

extractErrorMessage(response, defaultMessage) ==
    IF response = <<>> \/ ~Has(response[1], "data") THEN defaultMessage
    ELSE LET data == response[1].data
             status == response[1].status
         IN  IF TruthyStr(data, "msg") THEN data.msg
             ELSE IF TruthyStr(data, "message") THEN data.message
             ELSE IF TruthyStr(data, "detail") THEN data.detail
             ELSE IF status \in DOMAIN ERROR_CODE_MAP THEN ERROR_CODE_MAP[status]
             ELSE defaultMessage


\* store is the browser state the function reads and writes:
\* [token, userInfo, pathname, href]; clears and redirects count what this call did
\* fault variant of handleAuthError: redirects also when already on /login
handleAuthError_NoLoginCheck(status, store) ==
    IF status = 401
    THEN [token |-> NoItem, userInfo |-> NoItem, href |-> "/login",
          ret |-> TRUE, clears |-> 1, redirects |-> 1]
    ELSE [token |-> store.token, userInfo |-> store.userInfo, href |-> store.href,
          ret |-> FALSE, clears |-> 0, redirects |-> 0]

\* fault variant of handleAuthError: removes userInfo only
handleAuthError_KeepToken(status, store) ==
    IF status = 401
    THEN [token |-> store.token, userInfo |-> NoItem,
          href |-> IF store.pathname # "/login" THEN "/login" ELSE store.href,
          ret |-> TRUE, clears |-> 1,
          redirects |-> IF store.pathname # "/login" THEN 1 ELSE 0]
    ELSE [token |-> store.token, userInfo |-> store.userInfo, href |-> store.href,
          ret |-> FALSE, clears |-> 0, redirects |-> 0]

\* fault variant of handleAuthError: clears storage and never redirects
handleAuthError_NoRedirect(status, store) ==
    IF status = 401
    THEN [token |-> NoItem, userInfo |-> NoItem, href |-> store.href,
          ret |-> TRUE, clears |-> 1, redirects |-> 0]
    ELSE [token |-> store.token, userInfo |-> store.userInfo, href |-> store.href,
          ret |-> FALSE, clears |-> 0, redirects |-> 0]

handleAuthError(status, store) ==
    IF status = 401
    THEN [token |-> NoItem, userInfo |-> NoItem,
          href |-> IF store.pathname # "/login" THEN "/login" ELSE store.href,
          ret |-> TRUE, clears |-> 1,
          redirects |-> IF store.pathname # "/login" THEN 1 ELSE 0]
    ELSE [token |-> store.token, userInfo |-> store.userInfo, href |-> store.href,
          ret |-> FALSE, clears |-> 0, redirects |-> 0]

\* fault variant of isBusinessSuccess: only HTTP 200 and body code 0 count
isBusinessSuccess_Only200(response) ==
    IF response.status = 200
    THEN IF Has(response, "data") /\ Has(response.data, "code")
         THEN response.data.code = 0
         ELSE TRUE
    ELSE FALSE

isBusinessSuccess(response) ==
    IF response.status >= 200 /\ response.status < 300
    THEN IF Has(response, "data") /\ Has(response.data, "code")
         THEN response.data.code = 200 \/ response.data.code = 0
         ELSE TRUE
    ELSE FALSE

\* fault variant of isBusinessError: the body code is not consulted
isBusinessError_StatusOnly(response) ==
    includes(BUSINESS_ERROR_CODES, response.status)

isBusinessError(response) ==
    IF includes(BUSINESS_ERROR_CODES, response.status) THEN TRUE
    ELSE IF Has(response, "data") /\ Has(response.data, "code")
         THEN response.data.code # 200 /\ response.data.code # 0
         ELSE FALSE

\* error.response.data as the optional argument of createStandardError
DataOf(response) == IF Has(response, "data") THEN <<response.data>> ELSE <<>>

parseError(error, defaultMessage) ==
    LET errorType == getErrorType(error)
    IN  IF errorType = NETWORK_ERROR
        THEN createStandardError(NETWORK_ERROR, "network connection failed", 0,
                                 error, <<>>)
        ELSE IF errorType = AUTH_ERROR
        THEN createStandardError(AUTH_ERROR,
                 extractErrorMessage(<<error.response>>, "authentication failed"),
                 error.response.status, error, <<>>)
        ELSE IF errorType = BUSINESS_ERROR
        THEN createStandardError(BUSINESS_ERROR,
                 extractErrorMessage(<<error.response>>, defaultMessage),
                 error.response.status, error, DataOf(error.response))
        ELSE IF errorType = SYSTEM_ERROR
        THEN createStandardError(SYSTEM_ERROR,
                 extractErrorMessage(<<error.response>>, "system error, retry later"),
                 error.response.status, error, <<>>)
        ELSE createStandardError(BUSINESS_ERROR, defaultMessage,
                 IF Has(error, "response") THEN error.response.status ELSE 0,
                 error, <<>>)

---------------------------------------------------------------------------
(* react-web/src/utils/request.js *)

\* the store after a call that leaves the browser state alone
Untouched(store) ==
    [token |-> store.token, userInfo |-> store.userInfo, href |-> store.href,
     ret |-> FALSE, clears |-> 0, redirects |-> 0]

\* response interceptor, the handler of a fulfilled exchange
onFulfilled(response, store) ==
    IF response.responseType = "blob"
    THEN [settle |-> "resolve", value |-> <<response>>, auth |-> Untouched(store)]
    ELSE IF isBusinessSuccess(response)
    THEN [settle |-> "resolve", value |-> DataOf(response), auth |-> Untouched(store)]
    ELSE IF isBusinessError(response)
    THEN [settle |-> "reject",
          value |-> <<[message |-> "Business Error", response |-> response]>>,
          auth |-> IF response.status = 401
                   THEN handleAuthError(response.status, store)
                   ELSE Untouched(store)]
    ELSE [settle |-> "resolve", value |-> DataOf(response), auth |-> Untouched(store)]

\* response interceptor, the handler of a failed exchange
onRejected(error, store) ==
    [settle |-> "reject", value |-> <<error>>,
     auth |-> IF Has(error, "response") /\ error.response.status = 401
              THEN handleAuthError(error.response.status, store)
              ELSE Untouched(store)]

\* axios settles an exchange as fulfilled when a response arrived with a 2xx
\* status (no validateStatus is configured), as failed otherwise
responseInterceptor(outcome, store) ==
    IF Has(outcome, "response") /\ outcome.response.status >= 200
                                /\ outcome.response.status < 300
    THEN onFulfilled(outcome.response, store)
    ELSE onRejected(outcome, store)

---------------------------------------------------------------------------
(* unnamed/part_007: the interceptors of the Vue client, in their two variants;*)
(* web/src/utils/errorInit.js: resolveResError                              *)

codeMsgMap ==
    (400 :> "request error") @@
    (401 :> "unauthorized, please log in again") @@
    (403 :> "access denied") @@
    (404 :> "request address does not exist") @@
    (500 :> "internal server error") @@
    (501 :> "service not implemented") @@
    (502 :> "gateway error") @@
    (503 :> "service unavailable") @@
    (504 :> "gateway timeout") @@
    (505 :> "HTTP version not supported")

\* code is <<c>> for a number c, and <<>> for undefined and for the string
\* codes of axios, which the map does not hold
resolveResError(code, msg) ==
    IF msg # "" THEN msg
    ELSE IF code # <<>> /\ code[1] \in DOMAIN codeMsgMap
    THEN codeMsgMap[code[1]]
    ELSE "unknown error"

\* { code, message, error } of an error that has no response
NoResponseValue(error, message) ==
    IF Has(error, "code")
    THEN [code |-> error.code, message |-> message, error |-> error]
    ELSE [message |-> message, error |-> error]

\* data?.code ?? status
CodeOf(response) ==
    IF Has(response, "data") /\ Has(response.data, "code")
    THEN response.data.code ELSE response.status

\* data?.msg ?? fallback
MsgOf(response, fallback) ==
    IF Has(response, "data") /\ Has(response.data, "msg")
    THEN response.data.msg ELSE fallback

\* error.response?.data || error.response
ErrorOf(response) ==
    IF Has(response, "data") THEN response.data ELSE response

\* fault variant of resReject: no error page is opened
resReject_NoErrorPage(error, logoutThrows) ==
    IF ~Has(error, "response")
    THEN LET message == resolveResError(<<>>, error.message)
         IN  [settle |-> "reject", route |-> NoItem, logout |-> FALSE,
              shown |-> <<message>>,
              value |-> <<NoResponseValue(error, message)>>]
    ELSE LET code == CodeOf(error.response)
             message == resolveResError(<<code>>,
                                        MsgOf(error.response, error.message))
         IN  [settle |-> "reject", route |-> NoItem, logout |-> code = 401,
              shown |-> <<message>>,
              value |-> <<[code |-> code, message |-> message,
                           error |-> ErrorOf(error.response)]>>]

\* first variant. route is the argument of router.replace (NoItem when it is
\* not called), logout whether userStore.logout() was called, shown what
\* window.$message.error displayed; logoutThrows tells whether logout() throws
resReject(error, logoutThrows) ==
    IF ~Has(error, "response")
    THEN LET message == resolveResError(<<>>, error.message)
         IN  [settle |-> "reject", route |-> NoItem, logout |-> FALSE,
              shown |-> <<message>>,
              value |-> <<NoResponseValue(error, message)>>]
    ELSE LET code == CodeOf(error.response)
             message == resolveResError(<<code>>,
                                        MsgOf(error.response, error.message))
         IN  [settle |-> "reject",
              route |-> IF code = 401 THEN NoItem
                        ELSE IF code = 403 THEN "/403"
                        ELSE IF code = 404 THEN "/404"
                        ELSE IF code >= 500 THEN "/500"
                        ELSE NoItem,
              logout |-> code = 401,
              shown |-> <<message>>,
              value |-> <<[code |-> code, message |-> message,
                           error |-> ErrorOf(error.response)]>>]

\* second variant
resRejectV2(error, logoutThrows) ==
    IF ~Has(error, "response")
    THEN [settle |-> "reject", route |-> NoItem, logout |-> FALSE,
          shown |-> <<error.message>>,
          value |-> <<NoResponseValue(error, error.message)
                       @@ [type |-> NETWORK_ERROR]>>]
    ELSE IF Has(error.response, "data") /\ Has(error.response.data, "code")
            /\ error.response.data.code = 401
    THEN IF logoutThrows
         THEN [settle |-> "resolve", route |-> NoItem, logout |-> TRUE,
               shown |-> <<>>, value |-> <<>>]
         ELSE [settle |-> "reject", route |-> NoItem, logout |-> TRUE,
               shown |-> <<"login expired, please log in again">>,
               value |-> <<[code |-> 401,
                            message |-> "login expired, please log in again",
                            type |-> AUTH_ERROR]>>]
    ELSE [settle |-> "reject", route |-> NoItem, logout |-> FALSE,
          shown |-> <<>>,
          value |-> <<[code |-> CodeOf(error.response),
                       message |-> MsgOf(error.response, error.message),
                       error |-> ErrorOf(error.response),
                       type |-> BUSINESS_ERROR]>>]

---------------------------------------------------------------------------
(* Inputs of the error functions *)

\* S, and every record of S extended by field f with a value of V
Opt(S, f, V) == S \cup {r @@ (f :> v) : r \in S, v \in V}

\* HTTP statuses: success, every listed code, and unlisted 4xx and 5xx codes
Statuses == {200, 201, 400, 401, 403, 404, 409, 412, 422, 429, 500, 501, 502, 503, 504}

\* body-level business codes
Codes == {0, 200, 401, 422, 500}

\* JSON bodies: each of code, msg, message, detail present or not
JsonBodies ==
    Opt(Opt(Opt(Opt({[kind |-> "json"]}, "code", Codes),
                "msg", {"", "backend msg"}),
            "message", {"backend message"}),
        "detail", {"backend detail"})

\* a response without a body, with a JSON body, or a downloaded blob
Responses ==
    {[status |-> s, responseType |-> "json"] : s \in Statuses}
    \cup {[status |-> s, responseType |-> "json", data |-> d] :
              s \in Statuses, d \in JsonBodies}
    \cup {[status |-> s, responseType |-> "blob", data |-> [kind |-> "blob"]] :
              s \in Statuses}

\* errors that never got a response, whatever else they carry
NoResponseErrors ==
    {[message |-> "Network Error"],
     [message |-> "timeout of 10000ms exceeded", code |-> "ECONNABORTED"],
     [message |-> "Request failed", status |-> 400,
      data |-> [kind |-> "json", code |-> 200, msg |-> "backend msg"]]}

\* what axios hands to the response interceptor
Outcomes ==
    {[message |-> "Request failed", response |-> r] : r \in Responses}
    \cup NoResponseErrors

Defaults == {"operation failed, please retry", "caller default"}

\* the browser state as the functions see it
Store == [token |-> token, userInfo |-> userInfo, pathname |-> pathname,
          href |-> pendingHref]

\* the response argument of extractErrorMessage taken from an error
ResponseOf(error) == IF Has(error, "response") THEN <<error.response>> ELSE <<>>

\* useState values of ApiManagement; searchParams is the set of the entries
\* of the object, mounted tells whether the effect of the first render ran
InitApiPage ==
    [loading |-> FALSE, apis |-> <<>>, total |-> 0, currentPage |-> 1,
     pageSize |-> 10, searchParams |-> {}, availableTags |-> <<>>,
     refreshLoading |-> FALSE, mounted |-> FALSE]

\* refs of ImageUploader: dialog tells whether the file dialog is open
InitUploader == [isUploading |-> FALSE, dialog |-> FALSE, modelValue |-> ""]

\* refs of the department page; currentEditingDeptId is <<>> for null, rows
\* is the data of the table, modalVisible, modalAction and parent_id are the
\* modal of useCRUD and modalForm.parent_id
InitDeptPage ==
    [allDeptOptions |-> <<>>, deptOption |-> <<>>, isDisabled |-> FALSE,
     currentEditingDeptId |-> <<>>, rows |-> <<>>, mounted |-> FALSE,
     modalVisible |-> FALSE, modalAction |-> "", parent_id |-> 0]

\* useState values of the role page; currentRole is <<>> for null, the
\* selections are the sets of the elements of the arrays; origin names the role
\* whose answer filled the selections last (<<>>: none yet)
InitDrawer ==
    [permissionDrawerVisible |-> FALSE, currentRole |-> <<>>,
     selectedMenus |-> {}, selectedApis |-> {}, permissionLoading |-> FALSE,
     origin |-> <<>>]

\* the roles, and what the backend holds as their permissions at first
Roles == {1, 2}
InitRolePerms ==
    (1 :> [menus |-> {1}, apis |-> {[id |-> 1, path |-> "/api/v1/a", method |-> "GET"]}])
    @@ (2 :> [menus |-> {2}, apis |-> {}])

\* useState value of tabs
InitTabs == <<[key |-> "/dashboard", label |-> "dashboard", closable |-> FALSE]>>

\* no list request has been issued
NoRequest == [id |-> 0]

\* new GlobalErrorHandler(), and the components before any event
InitUi ==
    /\ handlers = <<>>
    /\ defaultHandler = NoItem
    /\ regLog = <<>>
    /\ messageApi = NoItem
    /\ menus = <<>>
    /\ menuItems = <<>>
    /\ apiPage = InitApiPage
    /\ events = 0
    /\ latest = NoRequest
    /\ uploader = InitUploader
    /\ depts = <<>>
    /\ deptPage = InitDeptPage
    /\ rolePerms = InitRolePerms
    /\ drawer = InitDrawer
    /\ tabs = InitTabs
    /\ activeTab = "/dashboard"

---------------------------------------------------------------------------
(* The error functions applied to every input *)

InitFn ==
    /\ err \in Outcomes
    /\ dflt \in Defaults
    /\ now \in 0..MaxClock
    /\ out = [fn |-> "none"]
    /\ \E logged \in BOOLEAN :
          /\ token = IF logged THEN "t1" ELSE NoItem
          /\ userInfo = IF logged THEN "u1" ELSE NoItem
          /\ pathname = IF logged THEN "/dashboard" ELSE "/login"
          /\ page = IF logged THEN "Layout" ELSE "Login"
    /\ pendingHref = NoItem
    /\ inflight = {}
    /\ nextId = 1
    /\ loginPc = "idle"
    /\ loading = FALSE
    /\ lastExchange = [id |-> 0]
    /\ lastNav = [to |-> NoItem, flip |-> FALSE]
    /\ InitUi

ApplyGetErrorType ==
    /\ out' = [fn |-> "getErrorType", val |-> getErrorType(err)]
    /\ UNCHANGED <<err, dflt, now, sessionVars, storageVars, uiVars>>

ApplyExtractErrorMessage ==
    /\ out' = [fn |-> "extractErrorMessage",
               val |-> extractErrorMessage(ResponseOf(err), dflt)]
    /\ UNCHANGED <<err, dflt, now, sessionVars, storageVars, uiVars>>

ApplyParseError ==
    /\ out' = [fn |-> "parseError", val |-> parseError(err, dflt)]
    /\ UNCHANGED <<err, dflt, now, sessionVars, storageVars, uiVars>>

ApplyIsBusinessSuccess ==
    /\ Has(err, "response")
    /\ out' = [fn |-> "isBusinessSuccess", val |-> isBusinessSuccess(err.response)]
    /\ UNCHANGED <<err, dflt, now, sessionVars, storageVars, uiVars>>

ApplyIsBusinessError ==
    /\ Has(err, "response")
    /\ out' = [fn |-> "isBusinessError", val |-> isBusinessError(err.response)]
    /\ UNCHANGED <<err, dflt, now, sessionVars, storageVars, uiVars>>

\* the exchange err is answered, once, and passes through the response interceptor
ApplyResponseInterceptor ==
    LET r == responseInterceptor(err, Store)
    IN  /\ lastExchange.id = 0
        /\ lastExchange' = [id |-> 1]
        /\ out' = [fn |-> "responseInterceptor", val |-> r.settle, value |-> r.value]
        /\ token' = r.auth.token
        /\ userInfo' = r.auth.userInfo
        /\ pendingHref' = r.auth.href
        /\ UNCHANGED <<err, dflt, now, pathname, page, inflight, nextId, loginPc,
                       loading, lastNav, uiVars>>

\* axios hands the failed exchange err to resReject, once; variant is 1 or 2.
\* router.replace changes the route the application shows
ApplyResReject ==
    /\ lastExchange.id = 0
    /\ ~(Has(err, "response") /\ err.response.status >= 200
                               /\ err.response.status < 300)
    /\ \E variant \in {1, 2}, logoutThrows \in BOOLEAN :
          LET r == IF variant = 1 THEN resReject(err, logoutThrows)
                   ELSE resRejectV2(err, logoutThrows)
          IN  /\ out' = [fn |-> IF variant = 1 THEN "resReject" ELSE "resRejectV2",
                         val |-> r.settle, value |-> r.value, route |-> r.route,
                         logout |-> r.logout, shown |-> r.shown,
                         pathBefore |-> pathname]
              /\ pathname' = IF r.route # NoItem THEN r.route ELSE pathname
    /\ lastExchange' = [id |-> 1]
    /\ UNCHANGED <<err, dflt, now, token, userInfo, pendingHref, page, inflight,
                   nextId, loginPc, loading, lastNav, uiVars>>

Tick ==
    /\ now < MaxClock
    /\ now' = now + 1
    /\ UNCHANGED <<err, dflt, out, sessionVars, storageVars, uiVars>>

NextFn ==
    \/ ApplyGetErrorType
    \/ ApplyExtractErrorMessage
    \/ ApplyParseError
    \/ ApplyIsBusinessSuccess
    \/ ApplyIsBusinessError
    \/ ApplyResponseInterceptor
    \/ ApplyResReject
    \/ Tick

SpecFn == InitFn /\ [][NextFn]_vars

---------------------------------------------------------------------------
(* Router: web/src/router/index.jsx, components/ProtectedRoute, LoginRedirect *)

Paths == {"/login", "/", "/dashboard", "/system/users", "/auth/callback", "/missing"}

\* access tokens the backend issues
Tokens == {"t1", "t2"}

\* the children of the '/' route, its index and its '*' child included
IsProtected(path) == path \notin {"/login", "/auth/callback"}

\* components/ProtectedRoute: the children with a token, else <Navigate to="/login">
ProtectedRoute(tok, children) ==
    IF tok # NoItem THEN children
    ELSE [kind |-> "redirect", to |-> "/login"]

\* fault variant of LoginRedirect: the token is not looked at
LoginRedirect_IgnoreToken(tok) == [kind |-> "redirect", to |-> "/dashboard"]

\* components/LoginRedirect
LoginRedirect(tok) ==
    IF tok # NoItem THEN [kind |-> "redirect", to |-> "/dashboard"]
    ELSE [kind |-> "render", page |-> "Login"]

\* one match of the route table: an element to render or a <Navigate>
routeStep(path, tok) ==
    IF path = "/login" THEN [kind |-> "render", page |-> "Login"]
    ELSE IF path = "/auth/callback" THEN LoginRedirect(tok)
    ELSE ProtectedRoute(tok,
             IF path = "/" THEN [kind |-> "redirect", to |-> "/dashboard"]
             ELSE [kind |-> "render", page |-> "Layout"])

\* the location and element the router settles on, following every <Navigate>
RECURSIVE resolveRoute(_, _)
resolveRoute(path, tok) ==
    LET m == routeStep(path, tok)
    IN  IF m.kind = "render" THEN [pathname |-> path, page |-> m.page]
        ELSE resolveRoute(m.to, tok)

\* request interceptor: the token header of an outgoing request
\* fault variant of requestInterceptor: noNeedToken is not looked at
requestInterceptor_AlwaysAttach(config, tok) ==
    IF tok # NoItem THEN tok ELSE NoItem

requestInterceptor(config, tok) ==
    IF tok # NoItem /\ ~config.noNeedToken THEN tok ELSE NoItem

\* the request interceptor of the Vue client (unnamed/part_007), which returns
\* the config; tok is getToken()
reqResolve(config, tok) ==
    IF config.noNeedToken THEN config
    ELSE IF tok # NoItem
    THEN [config EXCEPT !.headers =
             IF TruthyStr(config.headers, "token") THEN config.headers
             ELSE ("token" :> tok) @@ config.headers]
    ELSE config

---------------------------------------------------------------------------
(* The session: login, requests, 401 handling, navigation *)

\* the answers of the backend, one of each kind the handlers tell apart
Answer(status, body) ==
    [message |-> "Request failed",
     response |-> [status |-> status, responseType |-> "json", data |-> body]]

SessionOutcomes ==
    {Answer(200, [kind |-> "json", code |-> 200, access_token |-> t]) : t \in Tokens}
    \cup {Answer(200, [kind |-> "json", code |-> 422, msg |-> "backend msg"]),
          Answer(401, [kind |-> "json", code |-> 401, msg |-> "backend msg"]),
          Answer(403, [kind |-> "json", code |-> 403]),
          Answer(500, [kind |-> "json"]),
          [message |-> "Network Error"]}

Init ==
    /\ token = NoItem
    /\ userInfo = NoItem
    /\ pathname = "/login"
    /\ page = "Login"
    /\ pendingHref = NoItem
    /\ inflight = {}
    /\ nextId = 1
    /\ loginPc = "idle"
    /\ loading = FALSE
    /\ lastExchange = [id |-> 0]
    /\ lastNav = [to |-> "/", flip |-> FALSE]
    /\ err = [message |-> "Network Error"]
    /\ dflt = "caller default"
    /\ now = 0
    /\ out = [fn |-> "none"]
    /\ InitUi

\* Login.onFinish up to the first await: api.auth.login, sent with noNeedToken
LoginSubmit ==
    /\ page = "Login"
    /\ loginPc = "idle"
    /\ nextId + 1 <= MaxRequests
    /\ loading' = TRUE
    /\ loginPc' = "awaitToken"
    /\ inflight' = inflight \cup
          {[id |-> nextId, kind |-> "login", noNeedToken |-> TRUE,
            hdr |-> requestInterceptor([noNeedToken |-> TRUE], token)]}
    /\ nextId' = nextId + 1
    /\ UNCHANGED <<page, lastExchange, lastNav, storageVars, fnVars, uiVars>>

\* a page under Layout calls the API (fetchUserMenu on mount, the CRUD fetches)
IssueRequest ==
    /\ page = "Layout"
    /\ nextId <= MaxRequests
    /\ inflight' = inflight \cup
          {[id |-> nextId, kind |-> "api", noNeedToken |-> FALSE,
            hdr |-> requestInterceptor([noNeedToken |-> FALSE], token)]}
    /\ nextId' = nextId + 1
    /\ UNCHANGED <<page, loginPc, loading, lastExchange, lastNav, storageVars, fnVars, uiVars>>

\* what the completed exchange looked like and what its handler did
Exchange(req, outcome, r) ==
    [id |-> req.id, kind |-> req.kind, hdr |-> req.hdr,
     status |-> IF Has(outcome, "response") THEN outcome.response.status ELSE 0,
     type |-> IF r.settle = "reject" THEN getErrorType(r.value[1]) ELSE "success",
     settle |-> r.settle, pathBefore |-> pathname,
     cleared |-> r.auth.clears, redirected |-> r.auth.redirects,
     concurrent |-> {q.id : q \in inflight \ {req}}]

\* the answer to an API call of a page arrives; the caller shows a message at most
DeliverApi ==
    \E req \in inflight, outcome \in SessionOutcomes :
        LET r == responseInterceptor(outcome, Store)
        IN  /\ req.kind = "api"
            /\ inflight' = inflight \ {req}
            /\ token' = r.auth.token
            /\ userInfo' = r.auth.userInfo
            /\ pendingHref' = r.auth.href
            /\ lastExchange' = Exchange(req, outcome, r)
            /\ UNCHANGED <<pathname, page, nextId, loginPc, loading, lastNav, fnVars, uiVars>>

\* Login.onFinish resumes after api.auth.login: store the token and request the
\* user info, or fall to the catch block
DeliverLogin ==
    \E req \in inflight, outcome \in SessionOutcomes :
        LET r == responseInterceptor(outcome, Store)
            ok == /\ r.settle = "resolve"
                  /\ r.value # <<>>
                  /\ Has(r.value[1], "access_token")
        IN  /\ req.kind = "login"
            /\ loginPc = "awaitToken"
            /\ userInfo' = r.auth.userInfo
            /\ pendingHref' = r.auth.href
            /\ lastExchange' = Exchange(req, outcome, r)
            /\ IF ok
               THEN /\ token' = r.value[1].access_token
                    /\ inflight' = (inflight \ {req}) \cup
                          {[id |-> nextId, kind |-> "userinfo",
                            noNeedToken |-> FALSE,
                            hdr |-> requestInterceptor([noNeedToken |-> FALSE], token')]}
                    /\ nextId' = nextId + 1
                    /\ loginPc' = "awaitUserInfo"
                    /\ loading' = loading
               ELSE /\ token' = r.auth.token
                    /\ inflight' = inflight \ {req}
                    /\ nextId' = nextId
                    /\ loginPc' = "idle"
                    /\ loading' = FALSE
            /\ UNCHANGED <<pathname, page, lastNav, fnVars, uiVars>>

\* Login.onFinish resumes after api.auth.getUserInfo: store the user info and
\* navigate to /dashboard, or fall to the catch block
DeliverUserInfo ==
    \E req \in inflight, outcome \in SessionOutcomes :
        LET r == responseInterceptor(outcome, Store)
            to == resolveRoute("/dashboard", r.auth.token)
        IN  /\ req.kind = "userinfo"
            /\ loginPc = "awaitUserInfo"
            /\ inflight' = inflight \ {req}
            /\ token' = r.auth.token
            /\ pendingHref' = r.auth.href
            /\ lastExchange' = Exchange(req, outcome, r)
            /\ loginPc' = "idle"
            /\ loading' = FALSE
            /\ IF r.settle = "resolve"
               THEN /\ userInfo' = "u1"
                    /\ pathname' = to.pathname
                    /\ page' = to.page
                    /\ lastNav' = [to |-> "/dashboard", flip |-> ~lastNav.flip]
               ELSE /\ userInfo' = r.auth.userInfo
                    /\ UNCHANGED <<pathname, page, lastNav>>
            /\ UNCHANGED <<nextId, fnVars, uiVars>>

\* the browser loads a document at path: scripts, requests and component state
\* of the previous document are gone, localStorage stays
LoadDocument(path) ==
    LET to == resolveRoute(path, token)
    IN  /\ pathname' = to.pathname
        /\ page' = to.page
        /\ pendingHref' = NoItem
        /\ inflight' = {}
        /\ nextId' = 1
        /\ loginPc' = "idle"
        /\ loading' = FALSE
        /\ lastExchange' = [id |-> 0]
        /\ lastNav' = [to |-> path, flip |-> ~lastNav.flip]
        /\ UNCHANGED <<token, userInfo, fnVars, uiVars>>

\* the navigation started by window.location.href = '/login' takes effect
NavCommit ==
    /\ pendingHref # NoItem
    /\ LoadDocument(pendingHref)

\* the user opens or reloads a URL of the application
EnterUrl ==
    \E path \in Paths : LoadDocument(path)

\* navigate(key) from the Layout's menu or tabs
NavigateSpa ==
    \E path \in Paths \ {"/login", "/auth/callback"} :
        LET to == resolveRoute(path, token)
        IN  /\ page = "Layout"
            /\ pathname' = to.pathname
            /\ page' = to.page
            /\ lastNav' = [to |-> path, flip |-> ~lastNav.flip]
            /\ UNCHANGED <<token, userInfo, pendingHref, inflight, nextId, loginPc,
                           loading, lastExchange, fnVars, uiVars>>

\* Layout.handleLogout
handleLogout ==
    LET to == resolveRoute("/login", NoItem)
    IN  /\ page = "Layout"
        /\ token' = NoItem
        /\ userInfo' = NoItem
        /\ pathname' = to.pathname
        /\ page' = to.page
        /\ lastNav' = [to |-> "/login", flip |-> ~lastNav.flip]
        /\ UNCHANGED <<pendingHref, inflight, nextId, loginPc, loading, lastExchange,
                       fnVars, uiVars>>

Next ==
    \/ LoginSubmit
    \/ IssueRequest
    \/ DeliverApi
    \/ DeliverLogin
    \/ DeliverUserInfo
    \/ NavCommit
    \/ EnterUrl
    \/ NavigateSpa
    \/ handleLogout

Spec == Init /\ [][Next]_vars

---------------------------------------------------------------------------
(* web/src/utils/errorHandler.js: GlobalErrorHandler *)

\* number of register and setDefault calls
MaxCalls == 3

\* a function value is [typeof |-> "function", name |-> n]; null and other
\* values carry their typeof only
Fn(n) == [typeof |-> "function", name |-> n]
Null == [typeof |-> "null"]

\* JavaScript truthiness of a handler argument
Truthy(v) == v.typeof \notin {"null", "undefined"}

\* the handlers initializeGlobalErrorHandler registers, by error type
InitHandlers ==
    (BUSINESS_ERROR :> "businessHandler") @@ (NETWORK_ERROR :> "networkHandler")
    @@ (AUTH_ERROR :> "authHandler") @@ (SYSTEM_ERROR :> "systemHandler")

\* the default handler initializeGlobalErrorHandler sets
InitDefaultHandler == "unknownHandler"

\* calling the function f with error: the handlers of errorInit.js return the
\* error; what a caller's function returns is a value of its own, which
\* records the function and the argument it received
Call(f, error) ==
    IF f.name \in {InitHandlers[t] : t \in ERROR_TYPES} \cup {InitDefaultHandler}
    THEN error
    ELSE [returnedBy |-> f.name, arg |-> error]

\* the singleton globalErrorHandler as the methods see it
Self == [handlers |-> handlers, defaultHandler |-> defaultHandler]

\* Map.set replaces the handler the type had
register(self, errorType, handler) ==
    [self EXCEPT !.handlers = (errorType :> handler) @@ self.handlers]

setDefault(self, handler) ==
    [self EXCEPT !.defaultHandler = handler]

\* fault variant of handle: the default handler is tried before the type's
handle_DefaultFirst(self, error, customHandler) ==
    IF Truthy(customHandler) /\ customHandler.typeof = "function"
    THEN [ret |-> Call(customHandler, error), invoked |-> <<customHandler.name>>,
          logged |-> FALSE]
    ELSE IF self.defaultHandler # NoItem
    THEN [ret |-> Call(Fn(self.defaultHandler), error),
          invoked |-> <<self.defaultHandler>>, logged |-> FALSE]
    ELSE IF error.type \in DOMAIN self.handlers
    THEN [ret |-> Call(Fn(self.handlers[error.type]), error),
          invoked |-> <<self.handlers[error.type]>>, logged |-> FALSE]
    ELSE [ret |-> error, invoked |-> <<>>, logged |-> TRUE]

\* ret is the value returned, invoked the handlers called, in order, and
\* logged whether console.error was called
handle(self, error, customHandler) ==
    IF Truthy(customHandler) /\ customHandler.typeof = "function"
    THEN [ret |-> Call(customHandler, error), invoked |-> <<customHandler.name>>,
          logged |-> FALSE]
    ELSE IF error.type \in DOMAIN self.handlers
    THEN [ret |-> Call(Fn(self.handlers[error.type]), error),
          invoked |-> <<self.handlers[error.type]>>, logged |-> FALSE]
    ELSE IF self.defaultHandler # NoItem
    THEN [ret |-> Call(Fn(self.defaultHandler), error),
          invoked |-> <<self.defaultHandler>>, logged |-> FALSE]
    ELSE [ret |-> error, invoked |-> <<>>, logged |-> TRUE]

---------------------------------------------------------------------------
(* The error handlers at work: registry, hook and API wrapper *)

\* functions registered as handlers
HandlerNames == {"h1", "h2"}

\* the customHandler argument: omitted, a function, or a value that is none
CustomHandlers == {Null, Fn("custom"), [typeof |-> "string"]}

\* one failure of each error type
UiOutcomes ==
    {Answer(400, [kind |-> "json", msg |-> "backend msg"]),
     Answer(401, [kind |-> "json"]),
     Answer(500, [kind |-> "json"]),
     [message |-> "Network Error"]}

InitUiSpec ==
    /\ err \in UiOutcomes
    /\ dflt = "caller default"
    /\ now = 0
    /\ out = [fn |-> "none"]
    /\ token = "t1"
    /\ userInfo = "u1"
    /\ pathname = "/dashboard"
    /\ page = "Layout"
    /\ pendingHref = NoItem
    /\ inflight = {}
    /\ nextId = 1
    /\ loginPc = "idle"
    /\ loading = FALSE
    /\ lastExchange = [id |-> 0]
    /\ lastNav = [to |-> NoItem, flip |-> FALSE]
    /\ InitUi

\* registerGlobalHandler(errorType, handler)
Register ==
    /\ Len(regLog) < MaxCalls
    /\ \E t \in ERROR_TYPES, h \in HandlerNames :
          /\ handlers' = register(Self, t, h).handlers
          /\ regLog' = Append(regLog, [op |-> "register", type |-> t, handler |-> h])
    /\ out' = [fn |-> "register"]
    /\ UNCHANGED <<defaultHandler, messageApi, err, dflt, now, sessionVars,
                   storageVars, menuVars, compVars>>

\* setDefaultGlobalHandler(handler)
SetDefault ==
    /\ Len(regLog) < MaxCalls
    /\ \E h \in HandlerNames :
          /\ defaultHandler' = setDefault(Self, h).defaultHandler
          /\ regLog' = Append(regLog, [op |-> "setDefault", handler |-> h])
    /\ out' = [fn |-> "setDefault"]
    /\ UNCHANGED <<handlers, messageApi, err, dflt, now, sessionVars,
                   storageVars, menuVars, compVars>>

\* globalErrorHandler.handle(standardError, customHandler)
Handle ==
    /\ \E c \in CustomHandlers :
          LET standardError == parseError(err, dflt)
              r == handle(Self, standardError, c)
          IN  out' = [fn |-> "handle", error |-> standardError, custom |-> c,
                      val |-> r.ret, invoked |-> r.invoked, logged |-> r.logged]
    /\ UNCHANGED <<err, dflt, now, sessionVars, storageVars, uiVars>>

NextUi ==
    \/ Register
    \/ SetDefault
    \/ Handle

SpecUi == InitUiSpec /\ [][NextUi]_vars

---------------------------------------------------------------------------
(* web/src/hooks/useErrorHandler.js, web/src/utils/errorInit.js *)

\* fault variant of handleBusinessError: the message is shown only when the
\* caller passed no handler at all
handleBusinessError_QuietOnAnyHandler(error, defaultMessage, customHandler) ==
    LET standardError == parseError(error, defaultMessage)
    IN  IF Truthy(customHandler) /\ customHandler.typeof = "function"
        THEN [ret |-> Call(customHandler, standardError), shown |-> <<>>,
              error |-> standardError]
        ELSE [ret |-> standardError,
              shown |-> IF Truthy(customHandler) THEN <<>>
                        ELSE <<standardError.message>>,
              error |-> standardError]

\* shown is what message.error displayed, in order
handleBusinessError(error, defaultMessage, customHandler) ==
    LET standardError == parseError(error, defaultMessage)
    IN  IF Truthy(customHandler) /\ customHandler.typeof = "function"
        THEN [ret |-> Call(customHandler, standardError), shown |-> <<>>,
              error |-> standardError]
        ELSE [ret |-> standardError, shown |-> <<standardError.message>>,
              error |-> standardError]

\* what calling a value that is not a function throws
TypeError == [name |-> "TypeError", message |-> "customHandler is not a function"]

\* fault variant of createApiWrapper: a failed call is made once more
createApiWrapper_RetryOnFailure(result, errorMessage, customHandler, self) ==
    IF result.settle = "resolve"
    THEN [settle |-> "resolve", value |-> result.value, apiCalls |-> 1,
          globalCalls |-> <<>>, invoked |-> <<>>, customCalls |-> <<>>]
    ELSE LET standardError == parseError(result.value[1], errorMessage)
         IN  [settle |-> "reject", value |-> <<standardError>>, apiCalls |-> 2,
              globalCalls |-> <<standardError>>,
              invoked |-> handle(self, standardError, Null).invoked,
              customCalls |-> <<>>]

\* fault variant of createApiWrapper: the global handler runs before the
\* custom handler is looked at
createApiWrapper_GlobalAlways(result, errorMessage, customHandler, self) ==
    IF result.settle = "resolve"
    THEN [settle |-> "resolve", value |-> result.value, apiCalls |-> 1,
          globalCalls |-> <<>>, invoked |-> <<>>, customCalls |-> <<>>]
    ELSE LET standardError == parseError(result.value[1], errorMessage)
             g == handle(self, standardError, Null)
         IN  IF Truthy(customHandler)
             THEN IF customHandler.typeof = "function"
                  THEN [settle |-> "resolve",
                        value |-> <<Call(customHandler, standardError)>>,
                        apiCalls |-> 1, globalCalls |-> <<standardError>>,
                        invoked |-> g.invoked, customCalls |-> <<standardError>>]
                  ELSE [settle |-> "reject", value |-> <<TypeError>>,
                        apiCalls |-> 1, globalCalls |-> <<standardError>>,
                        invoked |-> g.invoked, customCalls |-> <<>>]
             ELSE [settle |-> "reject", value |-> <<standardError>>,
                   apiCalls |-> 1, globalCalls |-> <<standardError>>,
                   invoked |-> g.invoked, customCalls |-> <<>>]

\* one call of the function createApiWrapper returns; result is what the one
\* invocation of apiCall settled to. apiCalls counts the invocations of
\* apiCall, globalCalls and customCalls list the arguments
\* globalErrorHandler.handle and customHandler were called with, invoked the
\* registered handlers that ran
createApiWrapper(result, errorMessage, customHandler, self) ==
    IF result.settle = "resolve"
    THEN [settle |-> "resolve", value |-> result.value, apiCalls |-> 1,
          globalCalls |-> <<>>, invoked |-> <<>>, customCalls |-> <<>>]
    ELSE LET standardError == parseError(result.value[1], errorMessage)
         IN  IF Truthy(customHandler)
             THEN IF customHandler.typeof = "function"
                  THEN [settle |-> "resolve",
                        value |-> <<Call(customHandler, standardError)>>,
                        apiCalls |-> 1, globalCalls |-> <<>>, invoked |-> <<>>,
                        customCalls |-> <<standardError>>]
                  ELSE [settle |-> "reject", value |-> <<TypeError>>,
                        apiCalls |-> 1, globalCalls |-> <<>>, invoked |-> <<>>,
                        customCalls |-> <<>>]
             ELSE [settle |-> "reject", value |-> <<standardError>>,
                   apiCalls |-> 1, globalCalls |-> <<standardError>>,
                   invoked |-> handle(self, standardError, Null).invoked,
                   customCalls |-> <<>>]

---------------------------------------------------------------------------
(* API calls of a page: wrapped by createApiWrapper, or awaited in a try      *)
(* block whose catch calls handleBusinessError                              *)

\* number of API calls a page makes
MaxApiCalls == 2

\* what the backend answers to a call
CallOutcomes ==
    UiOutcomes
    \cup {Answer(200, [kind |-> "json", code |-> 200, data |-> "rows"]),
          Answer(200, [kind |-> "json", code |-> 422, msg |-> "backend msg"])}

InitCall ==
    /\ err = [message |-> "Network Error"]
    /\ dflt \in Defaults
    /\ now = 0
    /\ out = [fn |-> "none"]
    /\ token = "t1"
    /\ userInfo = "u1"
    /\ pathname = "/dashboard"
    /\ page = "Layout"
    /\ pendingHref = NoItem
    /\ inflight = {}
    /\ nextId = 1
    /\ loginPc = "idle"
    /\ loading = FALSE
    /\ lastExchange = [id |-> 0]
    /\ lastNav = [to |-> NoItem, flip |-> FALSE]
    /\ InitUi

\* the messageApi argument: omitted (null) or antd's message API
MessageApis == {NoItem, "message"}

\* initializeGlobalErrorHandler(messageApi), when the application starts
InitializeGlobalErrorHandler ==
    /\ regLog = <<>>
    /\ \E api \in MessageApis : messageApi' = api
    /\ handlers' = InitHandlers
    /\ defaultHandler' = InitDefaultHandler
    /\ regLog' = <<[op |-> "register", type |-> BUSINESS_ERROR,
                     handler |-> InitHandlers[BUSINESS_ERROR]],
                    [op |-> "register", type |-> NETWORK_ERROR,
                     handler |-> InitHandlers[NETWORK_ERROR]],
                    [op |-> "register", type |-> AUTH_ERROR,
                     handler |-> InitHandlers[AUTH_ERROR]],
                    [op |-> "register", type |-> SYSTEM_ERROR,
                     handler |-> InitHandlers[SYSTEM_ERROR]],
                    [op |-> "setDefault", handler |-> InitDefaultHandler]>>
    /\ out' = [fn |-> "initializeGlobalErrorHandler"]
    /\ UNCHANGED <<err, dflt, now, sessionVars, storageVars, menuVars, compVars>>

\* a page calls an API function: kind tells whether through a wrapper
\* ("wrapped") or in a try block of its own ("plain"); custom is the
\* customHandler the page passes
CallApi ==
    /\ nextId <= MaxApiCalls
    /\ \E k \in {"wrapped", "plain"}, c \in CustomHandlers :
          inflight' = inflight \cup
              {[id |-> nextId, kind |-> k, custom |-> c, sends |-> 1,
                noNeedToken |-> FALSE,
                hdr |-> requestInterceptor([noNeedToken |-> FALSE], token)]}
    /\ nextId' = nextId + 1
    /\ UNCHANGED <<page, loginPc, loading, lastExchange, lastNav, storageVars,
                   fnVars, uiVars>>

\* the answer to a wrapped call passes the response interceptor and settles
\* the promise the wrapper awaits
SettleWrapped ==
    \E req \in inflight, outcome \in CallOutcomes :
        LET r == responseInterceptor(outcome, Store)
            w == createApiWrapper(r, dflt, req.custom, Self)
        IN  /\ req.kind = "wrapped"
            /\ inflight' = (inflight \ {req}) \cup
                  (IF w.apiCalls > 1
                   THEN {[req EXCEPT !.sends = req.sends + 1]} ELSE {})
            /\ out' = [fn |-> "createApiWrapper", id |-> req.id,
                       custom |-> req.custom, result |-> r, sends |-> req.sends,
                       settle |-> w.settle, val |-> w.value,
                       globalCalls |-> w.globalCalls, invoked |-> w.invoked,
                       customCalls |-> w.customCalls]
            /\ lastExchange' = [id |-> req.id]
            /\ token' = r.auth.token
            /\ userInfo' = r.auth.userInfo
            /\ pendingHref' = r.auth.href
            /\ UNCHANGED <<pathname, page, nextId, loginPc, loading, lastNav, err,
                           dflt, now, uiVars>>

\* the answer to a plain call: on failure the catch block calls
\* handleBusinessError(error, defaultMessage, customHandler)
SettlePlain ==
    \E req \in inflight, outcome \in CallOutcomes :
        LET r == responseInterceptor(outcome, Store)
        IN  /\ req.kind = "plain"
            /\ inflight' = inflight \ {req}
            /\ out' = IF r.settle = "resolve"
                      THEN [fn |-> "await", id |-> req.id, result |-> r,
                            sends |-> req.sends]
                      ELSE LET h == handleBusinessError(r.value[1], dflt, req.custom)
                           IN  [fn |-> "handleBusinessError", id |-> req.id,
                                custom |-> req.custom, result |-> r,
                                sends |-> req.sends, error |-> h.error,
                                val |-> h.ret, shown |-> h.shown]
            /\ lastExchange' = [id |-> req.id]
            /\ token' = r.auth.token
            /\ userInfo' = r.auth.userInfo
            /\ pendingHref' = r.auth.href
            /\ UNCHANGED <<pathname, page, nextId, loginPc, loading, lastNav, err,
                           dflt, now, uiVars>>

NextCall ==
    \/ InitializeGlobalErrorHandler
    \/ CallApi
    \/ SettleWrapped
    \/ SettlePlain

SpecCall == InitCall /\ [][NextCall]_vars

---------------------------------------------------------------------------
(* web/src/hooks/useErrorHandler.js: handleError and its default display *)

\* what a handler of errorInit.js made with api displays when called with
\* error: messageApi.error(error.message) with a messageApi, console.error
\* without one; a caller's handler displays nothing through the hook
handlerDisplay(name, error, api) ==
    IF name \in {InitHandlers[t] : t \in ERROR_TYPES} \cup {InitDefaultHandler}
       /\ api # NoItem
    THEN <<error.message>>
    ELSE <<>>

\* handleDefaultError: message.error(standardError.message) for every type
handleDefaultError(standardError) == <<standardError.message>>

\* shown is what the message API displayed, in order: by the handler of the
\* registry first, then by handleDefaultError when handle returned the
\* error object it was given
handleError(error, defaultMessage, customHandler, self, api) ==
    LET standardError == parseError(error, defaultMessage)
    IN  IF Truthy(customHandler) /\ customHandler.typeof = "function"
        THEN [ret |-> Call(customHandler, standardError), shown |-> <<>>,
              error |-> standardError, invoked |-> <<customHandler.name>>]
        ELSE LET result == handle(self, standardError, Null)
                 byGlobal == IF result.invoked = <<>> THEN <<>>
                             ELSE handlerDisplay(result.invoked[1],
                                                 standardError, api)
             IN  [ret |-> standardError,
                  shown |-> byGlobal \o
                            (IF result.ret = standardError
                             THEN handleDefaultError(standardError) ELSE <<>>),
                  error |-> standardError, invoked |-> result.invoked]

\* a page calls an API function in a try block whose catch calls handleError
CallHandled ==
    /\ nextId <= MaxApiCalls
    /\ \E c \in CustomHandlers :
          inflight' = inflight \cup
              {[id |-> nextId, kind |-> "handled", custom |-> c, sends |-> 1,
                noNeedToken |-> FALSE,
                hdr |-> requestInterceptor([noNeedToken |-> FALSE], token)]}
    /\ nextId' = nextId + 1
    /\ UNCHANGED <<page, loginPc, loading, lastExchange, lastNav, storageVars,
                   fnVars, uiVars>>

\* the answer to the call: on failure the catch block calls
\* handleError(error, defaultMessage, customHandler)
SettleHandled ==
    \E req \in inflight, outcome \in CallOutcomes :
        LET r == responseInterceptor(outcome, Store)
        IN  /\ req.kind = "handled"
            /\ inflight' = inflight \ {req}
            /\ out' = IF r.settle = "resolve"
                      THEN [fn |-> "await", id |-> req.id, result |-> r,
                            sends |-> req.sends]
                      ELSE LET h == handleError(r.value[1], dflt, req.custom,
                                                Self, messageApi)
                           IN  [fn |-> "handleError", id |-> req.id,
                                custom |-> req.custom, result |-> r,
                                sends |-> req.sends, error |-> h.error,
                                val |-> h.ret, shown |-> h.shown,
                                invoked |-> h.invoked]
            /\ lastExchange' = [id |-> req.id]
            /\ token' = r.auth.token
            /\ userInfo' = r.auth.userInfo
            /\ pendingHref' = r.auth.href
            /\ UNCHANGED <<pathname, page, nextId, loginPc, loading, lastNav, err,
                           dflt, now, uiVars>>

NextHook ==
    \/ InitializeGlobalErrorHandler
    \/ CallHandled
    \/ SettleHandled

SpecHook == InitCall /\ [][NextHook]_vars

---------------------------------------------------------------------------
(* react-web/src/components/Layout/index.jsx: the navigation menu;          *)
(* web/src/pages/UserManagement/index.jsx: the menu tree of the role drawer *)

\* number of menu records
MaxMenus == 3

\* the fixed first entry of the navigation menu
DashboardItem == [key |-> "/dashboard", icon |-> "DashboardOutlined",
                  label |-> "dashboard"]

getDefaultIcon(menuType) ==
    CASE menuType = "catalog" -> "SettingOutlined"
      [] menuType = "menu" -> "MenuOutlined"
      [] menuType = "button" -> "AppstoreOutlined"
      [] OTHER -> "MenuOutlined"

\* fault variant of convertMenuData: a key is the record's own path
RECURSIVE convertMenuData_OwnPath(_, _)
convertMenuData_OwnPath(menuData, parentPath) ==
    [i \in 1..Len(menuData) |->
        LET menu == menuData[i]
            fullPath == menu.path
            convertedMenu ==
                [key |-> fullPath, label |-> menu.name,
                 icon |-> IF Has(menu, "icon") THEN menu.icon
                          ELSE getDefaultIcon(menu.menu_type)]
        IN  IF Has(menu, "children") /\ Len(menu.children) > 0
            THEN convertedMenu @@
                 [children |-> convertMenuData_OwnPath(menu.children, fullPath)]
            ELSE convertedMenu]

\* parentPath is "" at the top level
RECURSIVE convertMenuData(_, _)
convertMenuData(menuData, parentPath) ==
    [i \in 1..Len(menuData) |->
        LET menu == menuData[i]
            fullPath == IF parentPath # "" THEN parentPath \o "/" \o menu.path
                        ELSE menu.path
            convertedMenu ==
                [key |-> fullPath, label |-> menu.name,
                 icon |-> IF Has(menu, "icon") THEN menu.icon
                          ELSE getDefaultIcon(menu.menu_type)]
        IN  IF Has(menu, "children") /\ Len(menu.children) > 0
            THEN convertedMenu @@
                 [children |-> convertMenuData(menu.children, fullPath)]
            ELSE convertedMenu]

\* fault variant of fetchUserMenu: a failed fetch leaves the menu empty
fetchUserMenu_EmptyOnFailure(result) ==
    IF result.settle = "resolve"
    THEN LET response == result.value
             menuData == IF response # <<>> /\ Has(response[1], "data")
                         THEN response[1].data ELSE <<>>
         IN  [menuItems |-> <<DashboardItem>> \o convertMenuData(menuData, ""),
              thrown |-> FALSE]
    ELSE [menuItems |-> <<>>, thrown |-> FALSE]

\* result is what api.auth.getUserMenu() settled to; menuItems is the value
\* passed to setMenuItems, thrown whether the function's promise rejects
fetchUserMenu(result) ==
    IF result.settle = "resolve"
    THEN LET response == result.value
             menuData == IF response # <<>> /\ Has(response[1], "data")
                         THEN response[1].data ELSE <<>>
         IN  [menuItems |-> <<DashboardItem>> \o convertMenuData(menuData, ""),
              thrown |-> FALSE]
    ELSE [menuItems |-> <<DashboardItem>>, thrown |-> FALSE]

\* fault variant of buildMenuTree: a node is keyed by its parent's id
RECURSIVE buildMenuTree_ParentKey(_, _)
buildMenuTree_ParentKey(ms, parentId) ==
    LET kids == SelectSeq(ms, LAMBDA menu : menu.parent_id = parentId)
    IN  [i \in 1..Len(kids) |->
            [title |-> kids[i].name, key |-> ToString(kids[i].parent_id),
             children |-> buildMenuTree_ParentKey(ms, kids[i].id)]]

RECURSIVE buildMenuTree(_, _)
buildMenuTree(ms, parentId) ==
    LET kids == SelectSeq(ms, LAMBDA menu : menu.parent_id = parentId)
    IN  [i \in 1..Len(kids) |->
            [title |-> kids[i].name, key |-> ToString(kids[i].id),
             children |-> buildMenuTree(ms, kids[i].id)]]

\* the body of GET /base/usermenu: the records nested by parent_id, each with
\* its children array
RECURSIVE UserMenu(_, _)
UserMenu(ms, parentId) ==
    LET kids == SelectSeq(ms, LAMBDA menu : menu.parent_id = parentId)
    IN  [i \in 1..Len(kids) |->
            kids[i] @@ [children |-> UserMenu(ms, kids[i].id)]]

\* paths the menu form accepts: any text that is not empty
MenuPaths == {"/dashboard", "/system", "user"}

\* what the backend answers to GET /base/usermenu
MenuOutcomes ==
    {Answer(200, [kind |-> "json", code |-> 200, data |-> UserMenu(menus, 0)]),
     Answer(200, [kind |-> "json", code |-> 200]),
     Answer(200, [kind |-> "json", code |-> 422, msg |-> "backend msg"]),
     Answer(401, [kind |-> "json"]),
     Answer(500, [kind |-> "json"]),
     [message |-> "Network Error"]}

InitMenu ==
    /\ err = [message |-> "Network Error"]
    /\ dflt = "caller default"
    /\ now = 0
    /\ out = [fn |-> "none"]
    /\ token = "t1"
    /\ userInfo = "u1"
    /\ pathname = "/dashboard"
    /\ page = "Layout"
    /\ pendingHref = NoItem
    /\ inflight = {}
    /\ nextId = 1
    /\ loginPc = "idle"
    /\ loading = FALSE
    /\ lastExchange = [id |-> 0]
    /\ lastNav = [to |-> NoItem, flip |-> FALSE]
    /\ InitUi

\* MenuManagement: the form is submitted and api.menus.create stores a record;
\* the icon is optional, and here only catalogs are given one
CreateMenu ==
    /\ Len(menus) < MaxMenus
    /\ \E parent \in {0} \cup {menus[i].id : i \in 1..Len(menus)},
          path \in MenuPaths, withIcon \in BOOLEAN :
          LET id == Len(menus) + 1
              values == [id |-> id, parent_id |-> parent, path |-> path,
                         name |-> "menu " \o ToString(id),
                         menu_type |-> IF parent = 0 THEN "catalog" ELSE "menu"]
          IN  /\ withIcon => parent = 0
              /\ menus' = Append(menus, IF withIcon
                                        THEN values @@ [icon |-> "mdi:cog"]
                                        ELSE values)
    /\ UNCHANGED <<menuItems, registryVars, fnVars, sessionVars, storageVars,
                   compVars>>

\* Layout.fetchUserMenu, from the answer of the backend on
FetchUserMenu ==
    \E outcome \in MenuOutcomes :
        LET r == responseInterceptor(outcome, Store)
            f == fetchUserMenu(r)
        IN  /\ menuItems' = f.menuItems
            /\ out' = [fn |-> "fetchUserMenu", settle |-> r.settle,
                       menuData |-> IF Has(outcome, "response")
                                       /\ Has(outcome.response.data, "data")
                                    THEN outcome.response.data.data ELSE <<>>,
                       thrown |-> f.thrown]
            /\ token' = r.auth.token
            /\ userInfo' = r.auth.userInfo
            /\ pendingHref' = r.auth.href
            /\ UNCHANGED <<menus, registryVars, err, dflt, now, pathname,
                           sessionVars, compVars>>

NextMenu ==
    \/ CreateMenu
    \/ FetchUserMenu

SpecMenu == InitMenu /\ [][NextMenu]_vars

---------------------------------------------------------------------------
(* web/src/pages/ApiManagement/index.jsx: the list of the APIs and its      *)
(* refresh; unnamed/part_006: ImageUploader over the Vue client             *)

\* number of user events of a page that send a request
MaxEvents == 3
\* number of long operations (API scans, uploads) the user starts
MaxOps == 2

\* the arguments of Pagination's onChange: another page of the list, or
\* the first page in another page size
PageChanges(st) == {<<2, st.pageSize>>, <<1, 20>>}

\* the params handleSearch builds from the form values
SearchValues == {{<<"path", "q">>}}

\* { page, page_size, ...search }
ListParams(p, size, search) ==
    [page |-> p, page_size |-> size, search |-> search]

\* the body the backend answers to getList(params): the rows are those of the
\* query, page and page_size are echoed or left out
ListBody(params, echo) ==
    IF echo
    THEN [kind |-> "json", code |-> 200, data |-> <<params>>,
          total |-> IF params.search = {} THEN 25 ELSE 5,
          page |-> params.page, page_size |-> params.page_size]
    ELSE [kind |-> "json", code |-> 200, data |-> <<params>>,
          total |-> IF params.search = {} THEN 25 ELSE 5]

\* failures of a call
PageFailures == {Answer(500, [kind |-> "json"]), [message |-> "Network Error"]}

\* what can come back for getList(params)
ListOutcomes(params) ==
    {Answer(200, ListBody(params, echo)) : echo \in BOOLEAN} \cup PageFailures

\* what can come back for refresh(), getTags() and uploadImage(file)
PlainOutcomes ==
    {Answer(200, [kind |-> "json", code |-> 200,
                  data |-> [url |-> "https://oss/a.png"]]),
     Answer(200, [kind |-> "json", code |-> 200])} \cup PageFailures

\* fetchApis up to its await: setLoading(true)
fetchApis(st) == [st EXCEPT !.loading = TRUE]

\* fetchApis from its await on; result is the settled promise of getList
fetchApisSettled(st, params, result) ==
    IF result.settle = "resolve" /\ result.value # <<>>
    THEN LET response == result.value[1]
         IN  [st EXCEPT
                !.apis = IF Has(response, "data") THEN response.data ELSE <<>>,
                !.total = IF Has(response, "total") /\ response.total # 0
                          THEN response.total ELSE 0,
                !.currentPage = IF Has(response, "page") /\ response.page # 0
                                THEN response.page ELSE params.page,
                !.pageSize = IF Has(response, "page_size")
                                /\ response.page_size # 0
                             THEN response.page_size ELSE params.page_size,
                !.loading = FALSE]
    ELSE [st EXCEPT !.loading = FALSE]

\* fetchAllTags from its await on
fetchAllTagsSettled(st, result) ==
    IF result.settle = "resolve" /\ result.value # <<>>
    THEN [st EXCEPT !.availableTags =
             IF Has(result.value[1], "data") THEN <<result.value[1].data>>
             ELSE <<>>]
    ELSE st

\* fault variant of handleRefreshApisSettled: the flag is released on
\* success only
handleRefreshApisSettled_NoFinally(st, result) ==
    [st |-> st, fetch |-> result.settle = "resolve"]

\* handleRefreshApis from the await of api.apis.refresh() on: fetch tells
\* whether fetchApis() is called next; when refresh() failed the catch block
\* and the finally block run
handleRefreshApisSettled(st, result) ==
    IF result.settle = "resolve"
    THEN [st |-> st, fetch |-> TRUE]
    ELSE [st |-> [st EXCEPT !.refreshLoading = FALSE], fetch |-> FALSE]

\* the finally block of handleRefreshApis
handleRefreshApisFinally(st) == [st EXCEPT !.refreshLoading = FALSE]

\* resResolve of the Vue client, for a response with a 2xx status
resResolve(response) ==
    IF Has(response, "data") /\ Has(response.data, "code")
       /\ response.data.code = 200
    THEN [settle |-> "resolve", value |-> <<response.data>>]
    ELSE [settle |-> "reject",
          value |-> <<[code |-> CodeOf(response),
                       error |-> ErrorOf(response)]>>]

\* the promise of a call of the Vue client
VueResult(outcome, logoutThrows) ==
    IF Has(outcome, "response") /\ outcome.response.status >= 200
                                /\ outcome.response.status < 300
    THEN resResolve(outcome.response)
    ELSE LET r == resRejectV2(outcome, logoutThrows)
         IN  [settle |-> r.settle, value |-> r.value]

\* handleClick of ImageUploader
handleClick(u) == IF u.isUploading THEN u ELSE [u EXCEPT !.dialog = TRUE]

\* the file the user picks: none, one over maxSize, one that is accepted
Files == {"none", "big", "ok"}

\* handleFileChange up to its await: upload tells whether uploadImage is called
handleFileChange(u, file) ==
    IF file = "ok"
    THEN [u |-> [u EXCEPT !.dialog = FALSE, !.isUploading = TRUE],
          upload |-> TRUE]
    ELSE [u |-> [u EXCEPT !.dialog = FALSE], upload |-> FALSE]

\* handleFileChange from its await on. res.code of an undefined res and
\* res.data.url of a missing data throw inside the try block
handleFileChangeSettled(u, result) ==
    IF result.settle = "resolve" /\ result.value # <<>>
       /\ result.value[1].code = 200 /\ Has(result.value[1], "data")
    THEN [u EXCEPT !.modelValue = result.value[1].data.url,
                   !.isUploading = FALSE]
    ELSE [u EXCEPT !.isUploading = FALSE]

InitPage ==
    /\ err = [message |-> "Network Error"]
    /\ dflt = "caller default"
    /\ now = 0
    /\ out = [fn |-> "none"]
    /\ token = "t1"
    /\ userInfo = "u1"
    /\ pathname = "/dashboard"
    /\ page = "Layout"
    /\ pendingHref = NoItem
    /\ inflight = {}
    /\ nextId = 1
    /\ loginPc = "idle"
    /\ loading = FALSE
    /\ lastExchange = [id |-> 0]
    /\ lastNav = [to |-> NoItem, flip |-> FALSE]
    /\ InitUi

\* the requests in flight of one kind
Sent(kind) == {req \in inflight : req.kind = kind}

\* a request of the page: by names the function that awaits it, args the
\* page, size and search that function's fetchApis() will use
Request(kind, by, params) ==
    [id |-> nextId, kind |-> kind, by |-> by, params |-> params,
     noNeedToken |-> FALSE,
     hdr |-> requestInterceptor([noNeedToken |-> FALSE], token)]

\* the arguments fetchApis() takes from the state of the render
StateParams(st) == ListParams(st.currentPage, st.pageSize, st.searchParams)

otherPageVars == <<page, loginPc, loading, lastExchange, lastNav, storageVars,
                   err, dflt, now, registryVars, menuVars, deptVars, drawerVars,
                   tabVars>>

\* fetchApis(page, size, search) called by an event handler
IssueList(st, params, by) ==
    /\ apiPage' = fetchApis(st)
    /\ inflight' = inflight \cup {Request("getList", by, params)}
    /\ latest' = [id |-> nextId, params |-> params, settled |-> "pending"]
    /\ nextId' = nextId + 1

\* the effect of the first render: fetchApis() and fetchAllTags()
Mount ==
    /\ ~apiPage.mounted
    /\ apiPage' = fetchApis([apiPage EXCEPT !.mounted = TRUE])
    /\ inflight' = inflight \cup
          {Request("getList", "fetchApis", StateParams(apiPage)),
           [Request("getTags", "fetchAllTags", StateParams(apiPage))
               EXCEPT !.id = nextId + 1]}
    /\ latest' = [id |-> nextId, params |-> StateParams(apiPage),
                  settled |-> "pending"]
    /\ nextId' = nextId + 2
    /\ out' = [fn |-> "useEffect"]
    /\ UNCHANGED <<events, uploader, otherPageVars>>

UserEvent ==
    /\ apiPage.mounted
    /\ events < MaxEvents
    /\ events' = events + 1

\* the search form is submitted; its button ignores clicks while loading
handleSearch ==
    /\ UserEvent
    /\ ~apiPage.loading
    /\ \E params \in SearchValues :
          IssueList([apiPage EXCEPT !.searchParams = params, !.currentPage = 1],
                    ListParams(1, apiPage.pageSize, params), "fetchApis")
    /\ out' = [fn |-> "handleSearch"]
    /\ UNCHANGED <<uploader, otherPageVars>>

handleClearSearch ==
    /\ UserEvent
    /\ IssueList([apiPage EXCEPT !.searchParams = {}, !.currentPage = 1],
                 ListParams(1, apiPage.pageSize, {}), "fetchApis")
    /\ out' = [fn |-> "handleClearSearch"]
    /\ UNCHANGED <<uploader, otherPageVars>>

handlePageChange ==
    /\ UserEvent
    /\ \E c \in PageChanges(apiPage) :
          IssueList([apiPage EXCEPT !.currentPage = c[1], !.pageSize = c[2]],
                    ListParams(c[1], c[2], apiPage.searchParams), "fetchApis")
    /\ out' = [fn |-> "handlePageChange"]
    /\ UNCHANGED <<uploader, otherPageVars>>

\* the button of the API scan; it ignores clicks while refreshLoading
handleRefreshApis ==
    /\ apiPage.mounted
    /\ events < MaxOps
    /\ events' = events + 1
    /\ ~apiPage.refreshLoading
    /\ apiPage' = [apiPage EXCEPT !.refreshLoading = TRUE]
    /\ inflight' = inflight \cup
          {Request("refresh", "handleRefreshApis", StateParams(apiPage))}
    /\ nextId' = nextId + 1
    /\ out' = [fn |-> "handleRefreshApis"]
    /\ UNCHANGED <<latest, uploader, otherPageVars>>

\* what the interceptor does to the browser state
Intercepted(r) ==
    /\ token' = r.auth.token
    /\ userInfo' = r.auth.userInfo
    /\ pendingHref' = r.auth.href

\* the answer to refresh()
DeliverRefresh ==
    \E req \in Sent("refresh"), outcome \in PlainOutcomes :
        LET r == responseInterceptor(outcome, Store)
            h == handleRefreshApisSettled(apiPage, r)
        IN  /\ Intercepted(r)
            /\ IF h.fetch
               THEN /\ apiPage' = fetchApis(h.st)
                    /\ inflight' = (inflight \ {req}) \cup
                          {Request("getList", "handleRefreshApis", req.params)}
                    /\ latest' = [id |-> nextId, params |-> req.params,
                                  settled |-> "pending"]
                    /\ nextId' = nextId + 1
               ELSE /\ apiPage' = h.st
                    /\ inflight' = inflight \ {req}
                    /\ UNCHANGED <<latest, nextId>>
            /\ out' = [fn |-> "handleRefreshApis", settle |-> r.settle]
            /\ UNCHANGED <<events, uploader, page, loginPc, loading, lastExchange,
                           lastNav, pathname, err, dflt, now, registryVars,
                           menuVars, deptVars, drawerVars, tabVars>>

\* the answer to getList(params)
DeliverList ==
    \E req \in Sent("getList") :
      \E outcome \in ListOutcomes(req.params) :
        LET r == responseInterceptor(outcome, Store)
            st == fetchApisSettled(apiPage, req.params, r)
        IN  /\ Intercepted(r)
            /\ apiPage' = st
            /\ IF req.by = "handleRefreshApis"
               THEN /\ inflight' = (inflight \ {req}) \cup
                          {Request("getTags", "handleRefreshApis", req.params)}
                    /\ nextId' = nextId + 1
               ELSE /\ inflight' = inflight \ {req}
                    /\ UNCHANGED nextId
            /\ latest' = IF latest.id = req.id
                         THEN [latest EXCEPT !.settled = r.settle] ELSE latest
            /\ out' = [fn |-> "fetchApis", settle |-> r.settle]
            /\ UNCHANGED <<events, uploader, page, loginPc, loading, lastExchange,
                           lastNav, pathname, err, dflt, now, registryVars,
                           menuVars, deptVars, drawerVars, tabVars>>

\* the answer to getTags()
DeliverTags ==
    \E req \in Sent("getTags"), outcome \in PlainOutcomes :
        LET r == responseInterceptor(outcome, Store)
            st == fetchAllTagsSettled(apiPage, r)
        IN  /\ Intercepted(r)
            /\ apiPage' = IF req.by = "handleRefreshApis"
                          THEN handleRefreshApisFinally(st) ELSE st
            /\ inflight' = inflight \ {req}
            /\ out' = [fn |-> "fetchAllTags", settle |-> r.settle]
            /\ UNCHANGED <<events, latest, nextId, uploader, page, loginPc,
                           loading, lastExchange, lastNav, pathname, err, dflt,
                           now, registryVars, menuVars, deptVars, drawerVars,
                           tabVars>>

\* the upload area is clicked
HandleClick ==
    /\ ~uploader.dialog
    /\ uploader' = handleClick(uploader)
    /\ uploader' # uploader
    /\ out' = [fn |-> "handleClick"]
    /\ UNCHANGED <<apiPage, events, latest, inflight, nextId, otherPageVars>>

\* the file dialog closes
HandleFileChange ==
    /\ uploader.dialog
    /\ \E file \in Files :
          LET h == handleFileChange(uploader, file)
          IN  /\ h.upload => events < MaxOps
              /\ uploader' = h.u
              /\ events' = IF h.upload THEN events + 1 ELSE events
              /\ inflight' = inflight \cup
                    (IF h.upload
                     THEN {Request("uploadImage", "handleFileChange",
                                   [file |-> file])}
                     ELSE {})
              /\ nextId' = IF h.upload THEN nextId + 1 ELSE nextId
              /\ out' = [fn |-> "handleFileChange", file |-> file]
    /\ UNCHANGED <<apiPage, latest, otherPageVars>>

\* the answer to uploadImage(file)
DeliverUpload ==
    \E req \in Sent("uploadImage"),
       outcome \in PlainOutcomes \cup {Answer(401, [kind |-> "json", code |-> 401])},
       logoutThrows \in BOOLEAN :
        LET r == VueResult(outcome, logoutThrows)
        IN  /\ uploader' = handleFileChangeSettled(uploader, r)
            /\ inflight' = inflight \ {req}
            /\ out' = [fn |-> "handleFileChange", settle |-> r.settle]
            /\ UNCHANGED <<apiPage, events, latest, nextId, otherPageVars>>

Deliver == DeliverRefresh \/ DeliverList \/ DeliverTags \/ DeliverUpload

\* the list and the events that fetch it
NextList ==
    \/ Mount
    \/ handleSearch
    \/ handleClearSearch
    \/ handlePageChange
    \/ DeliverList
    \/ DeliverTags

SpecList == InitPage /\ [][NextList]_vars

\* the long operations of the page
NextPage ==
    \/ Mount
    \/ handleRefreshApis
    \/ DeliverRefresh
    \/ DeliverList
    \/ DeliverTags
    \/ HandleClick
    \/ HandleFileChange
    \/ DeliverUpload

SpecPage == InitPage /\ [][NextPage]_vars

\* the client times a request out after 10 s, so that every request is
\* answered
SpecPageFair == SpecPage /\ WF_vars(Deliver)

---------------------------------------------------------------------------
(* web/src/views/system/dept/index.vue: the department page                 *)

\* number of departments the backend holds
MaxDepts == 3

\* the records of n departments, each under the top level (0) or under an
\* earlier one
DeptRecords(n) ==
    {[i \in 1..n |-> [id |-> i, name |-> "dept " \o ToString(i),
                      parent_id |-> f[i]]] :
        f \in {g \in [1..n -> 0..n] : \A i \in 1..n : g[i] < i}}

\* the body of departments.getList(): the records nested by parent_id
RECURSIVE DeptTree(_, _)
DeptTree(ds, parentId) ==
    LET kids == SelectSeq(ds, LAMBDA d : d.parent_id = parentId)
    IN  [i \in 1..Len(kids) |->
            kids[i] @@ [children |-> DeptTree(ds, kids[i].id)]]

\* a node has children to descend into
HasChildren(node) == Has(node, "children") /\ node.children # <<>>

\* _level and _levelName are written as the one field _level
RECURSIVE processTreeData(_, _)
processTreeData(deptTree, level) ==
    [i \in 1..Len(deptTree) |->
        [deptTree[i] EXCEPT !.children =
            IF HasChildren(deptTree[i])
            THEN processTreeData(deptTree[i].children, level + 1)
            ELSE <<>>]
        @@ [_level |-> level]]

\* the option placed before the departments
TopOption == [id |-> 0, name |-> "top level", children |-> <<>>]

\* loadDeptOptions from its await on
loadDeptOptions(st, result) ==
    IF result.settle = "resolve" /\ result.value # <<>>
       /\ Has(result.value[1], "data")
    THEN LET fullOptions == <<TopOption>> \o result.value[1].data
         IN  [st EXCEPT !.allDeptOptions = fullOptions,
                        !.deptOption = fullOptions]
    ELSE st

\* findChildren(id, list): the ids its loop pushes from index from on
RECURSIVE findChildren(_, _, _)
findChildren(id, list, from) ==
    IF from > Len(list) THEN <<>>
    ELSE (IF Has(list[from], "parent_id") /\ list[from].parent_id = id
          THEN <<list[from].id>> \o findChildren(list[from].id, list, 1)
          ELSE <<>>)
         \o findChildren(id, list, from + 1)

getDeptAndChildrenIds(deptId, deptList) ==
    <<deptId>> \o findChildren(deptId, deptList, 1)

RECURSIVE flattenTree(_)
flattenTree(nodes) ==
    IF nodes = <<>> THEN <<>>
    ELSE LET node == Head(nodes)
         IN  <<IF Has(node, "parent_id")
               THEN [id |-> node.id, name |-> node.name,
                     parent_id |-> node.parent_id]
               ELSE [id |-> node.id, name |-> node.name]>>
             \o (IF HasChildren(node) THEN flattenTree(node.children) ELSE <<>>)
             \o flattenTree(Tail(nodes))

getPlainDeptList(st) == flattenTree(st.allDeptOptions)

RECURSIVE filterTree(_, _)
filterTree(treeNodes, excludeIds) ==
    LET kept == SelectSeq(treeNodes, LAMBDA node : ~includes(excludeIds, node.id))
    IN  [i \in 1..Len(kept) |->
            IF HasChildren(kept[i])
            THEN [kept[i] EXCEPT !.children = filterTree(@, excludeIds)]
            ELSE kept[i]]

\* deptId is <<>> for null; JSON.parse(JSON.stringify(x)) copies x
filterDeptTree(st, deptId) ==
    IF deptId = <<>> \/ deptId[1] = 0
    THEN [st EXCEPT !.deptOption = st.allDeptOptions]
    ELSE LET excludeIds == getDeptAndChildrenIds(deptId[1], getPlainDeptList(st))
         IN  [st EXCEPT !.deptOption = filterTree(st.allDeptOptions, excludeIds)]

\* handleEdit of useCRUD: the modal opens in edit mode with the row as form
originalHandleEdit(st, fullRow) ==
    [st EXCEPT !.modalVisible = TRUE, !.modalAction = "edit",
               !.parent_id = fullRow.parent_id]

\* handleAdd of useCRUD: the modal opens in add mode with initForm
handleAdd(st) ==
    [st EXCEPT !.modalVisible = TRUE, !.modalAction = "add", !.parent_id = 0]

handleEdit(st, row) ==
    LET fullRow == [id |-> row.id, name |-> row.name, parent_id |-> row.parent_id]
        st1 == [st EXCEPT !.isDisabled = fullRow.parent_id = 0,
                          !.currentEditingDeptId = <<fullRow.id>>]
    IN  originalHandleEdit(filterDeptTree(st1, <<fullRow.id>>), fullRow)

addDepts(st) ==
    LET st1 == [st EXCEPT !.isDisabled = FALSE, !.parent_id = 0]
        st2 == [filterDeptTree(st1, <<>>) EXCEPT !.currentEditingDeptId = <<>>]
    IN  handleAdd(st2)

\* the ids of the departments a cascading delete of deptId removes
RECURSIVE Cascade(_, _)
Cascade(ds, deptId) ==
    {deptId} \cup UNION {Cascade(ds, ds[i].id) :
                            i \in {j \in 1..Len(ds) : ds[j].parent_id = deptId}}

\* what the backend answers to departments.getList()
DeptOutcomes ==
    {Answer(200, [kind |-> "json", code |-> 200, data |-> DeptTree(depts, 0)])}
    \cup PageFailures

InitDept ==
    /\ err = [message |-> "Network Error"]
    /\ dflt = "caller default"
    /\ now = 0
    /\ out = [fn |-> "none"]
    /\ token = "t1"
    /\ userInfo = "u1"
    /\ pathname = "/dashboard"
    /\ page = "Layout"
    /\ pendingHref = NoItem
    /\ inflight = {}
    /\ nextId = 1
    /\ loginPc = "idle"
    /\ loading = FALSE
    /\ lastExchange = [id |-> 0]
    /\ lastNav = [to |-> NoItem, flip |-> FALSE]
    /\ handlers = <<>>
    /\ defaultHandler = NoItem
    /\ regLog = <<>>
    /\ messageApi = NoItem
    /\ menus = <<>>
    /\ menuItems = <<>>
    /\ apiPage = InitApiPage
    /\ events = 0
    /\ latest = NoRequest
    /\ uploader = InitUploader
    /\ \E n \in 1..MaxDepts : depts \in DeptRecords(n)
    /\ deptPage = InitDeptPage
    /\ rolePerms = InitRolePerms
    /\ drawer = InitDrawer
    /\ tabs = InitTabs
    /\ activeTab = "/dashboard"

otherDeptVars == <<page, loginPc, loading, lastExchange, lastNav, storageVars,
                   err, dflt, now, registryVars, menuVars, apiPage, latest,
                   uploader, drawerVars, tabVars>>

\* refreshData up to its first await: the table searches
refreshData ==
    /\ inflight' = inflight \cup {Request("deptTable", "refreshData", <<>>)}
    /\ nextId' = nextId + 1

\* onMounted(() => refreshData())
MountDept ==
    /\ ~deptPage.mounted
    /\ deptPage' = [deptPage EXCEPT !.mounted = TRUE]
    /\ refreshData
    /\ out' = [fn |-> "onMounted"]
    /\ UNCHANGED <<depts, events, otherDeptVars>>

\* getTableData settles and the table shows its rows; refreshData goes on to
\* loadDeptOptions
DeliverTable ==
    \E req \in Sent("deptTable"), outcome \in DeptOutcomes :
        LET r == VueResult(outcome, FALSE)
        IN  /\ deptPage' = [deptPage EXCEPT !.rows =
                  IF r.settle = "resolve" /\ Has(r.value[1], "data")
                  THEN processTreeData(r.value[1].data, 1) ELSE <<>>]
            /\ inflight' = (inflight \ {req})
                  \cup {Request("deptOptions", "loadDeptOptions", <<>>)}
            /\ nextId' = nextId + 1
            /\ out' = [fn |-> "getTableData", settle |-> r.settle]
            /\ UNCHANGED <<depts, events, otherDeptVars>>

\* the answer to the getList() of loadDeptOptions
DeliverDeptOptions ==
    \E req \in Sent("deptOptions"), outcome \in DeptOutcomes :
        LET r == VueResult(outcome, FALSE)
        IN  /\ deptPage' = loadDeptOptions(deptPage, r)
            /\ inflight' = inflight \ {req}
            /\ out' = [fn |-> "loadDeptOptions", settle |-> r.settle]
            /\ UNCHANGED <<depts, events, nextId, otherDeptVars>>

\* the rows of the table, at every level
RECURSIVE Rows(_)
Rows(nodes) ==
    IF nodes = <<>> THEN {}
    ELSE {Head(nodes)} \cup Rows(Head(nodes).children) \cup Rows(Tail(nodes))

\* the edit button of a row; the open modal covers the table
HandleEdit ==
    /\ ~deptPage.modalVisible
    /\ \E row \in Rows(deptPage.rows) :
          /\ deptPage' = handleEdit(deptPage, row)
          /\ out' = [fn |-> "handleEdit", id |-> row.id]
    /\ UNCHANGED <<depts, events, inflight, nextId, otherDeptVars>>

\* the button that adds a department
AddDepts ==
    /\ ~deptPage.modalVisible
    /\ deptPage.mounted
    /\ deptPage' = addDepts(deptPage)
    /\ out' = [fn |-> "addDepts"]
    /\ UNCHANGED <<depts, events, inflight, nextId, otherDeptVars>>

\* the modal is closed without saving
CloseModal ==
    /\ deptPage.modalVisible
    /\ deptPage' = [deptPage EXCEPT !.modalVisible = FALSE]
    /\ out' = [fn |-> "closeModal"]
    /\ UNCHANGED <<depts, events, inflight, nextId, otherDeptVars>>

\* customHandleDelete up to its await
CustomHandleDelete ==
    /\ ~deptPage.modalVisible
    /\ events < MaxOps
    /\ events' = events + 1
    /\ \E row \in Rows(deptPage.rows) :
          /\ Sent("delete") = {}
          /\ inflight' = inflight \cup
                {Request("delete", "customHandleDelete", [dept_id |-> row.id])}
          /\ nextId' = nextId + 1
    /\ out' = [fn |-> "customHandleDelete"]
    /\ UNCHANGED <<depts, deptPage, otherDeptVars>>

\* the backend deletes the department and those under it, or fails;
\* customHandleDelete goes on to refreshData() after a success
DeliverDelete ==
    \E req \in Sent("delete"), ok \in BOOLEAN :
        LET gone == Cascade(depts, req.params.dept_id)
        IN  /\ depts' = IF ok THEN SelectSeq(depts, LAMBDA d : d.id \notin gone)
                        ELSE depts
            /\ inflight' = (inflight \ {req}) \cup
                  (IF ok THEN {Request("deptTable", "refreshData", <<>>)} ELSE {})
            /\ nextId' = IF ok THEN nextId + 1 ELSE nextId
            /\ out' = [fn |-> "customHandleDelete", ok |-> ok]
            /\ UNCHANGED <<deptPage, events, otherDeptVars>>

NextDept ==
    \/ MountDept
    \/ DeliverTable
    \/ DeliverDeptOptions
    \/ HandleEdit
    \/ AddDepts
    \/ CloseModal
    \/ CustomHandleDelete
    \/ DeliverDelete

SpecDept == InitDept /\ [][NextDept]_vars

---------------------------------------------------------------------------
(* web/src/pages/UserManagement/index.jsx: the permission drawer of a role  *)

\* the menus and the APIs that can be selected
MenuIds == {1, 2}
ApiInfos == {[id |-> 1, path |-> "/api/v1/a", method |-> "GET"]}

\* parseInt of a key made by id.toString()
parseInt(str) == CHOOSE n \in MenuIds : ToString(n) = str

\* what the backend answers to roles.getAuthorized(role.id)
AuthorizedOutcomes(roleId) ==
    {Answer(200, [kind |-> "json", code |-> 200,
                  data |-> [menus |-> {[id |-> m] : m \in rolePerms[roleId].menus},
                            apis |-> rolePerms[roleId].apis]]),
     Answer(200, [kind |-> "json", code |-> 200])}
    \cup PageFailures

\* handleOpenPermissionDrawer up to its await
handleOpenPermissionDrawer(st, role) ==
    [st EXCEPT !.currentRole = <<role>>, !.permissionDrawerVisible = TRUE,
               !.permissionLoading = TRUE]

\* handleOpenPermissionDrawer from its await on; roleData.menus of an
\* undefined roleData throws inside the try block
handleOpenPermissionDrawerSettled(st, role, result) ==
    IF result.settle = "resolve" /\ result.value # <<>>
       /\ Has(result.value[1], "data")
    THEN LET roleData == result.value[1].data
         IN  [st EXCEPT
                !.selectedMenus = {ToString(m.id) : m \in roleData.menus},
                !.selectedApis = {[id |-> a.id, path |-> a.path,
                                   method |-> a.method] : a \in roleData.apis},
                !.origin = <<role.id>>,
                !.permissionLoading = FALSE]
    ELSE [st EXCEPT !.permissionLoading = FALSE]

\* the argument of api.roles.updateAuthorized; origin goes with it as the
\* source of the selections sent
updateAuthorizedParams(st) ==
    [id |-> st.currentRole[1].id,
     menu_ids |-> {parseInt(id) : id \in st.selectedMenus},
     api_infos |-> {[id |-> a.id, path |-> a.path, method |-> a.method] :
                       a \in st.selectedApis},
     origin |-> st.origin]

\* handleSavePermission from its await on
handleSavePermissionSettled(st, result) ==
    IF result.settle = "resolve"
    THEN [st EXCEPT !.permissionDrawerVisible = FALSE,
                    !.permissionLoading = FALSE]
    ELSE [st EXCEPT !.permissionLoading = FALSE]

InitDrawerSpec ==
    /\ err = [message |-> "Network Error"]
    /\ dflt = "caller default"
    /\ now = 0
    /\ out = [fn |-> "none"]
    /\ token = "t1"
    /\ userInfo = "u1"
    /\ pathname = "/dashboard"
    /\ page = "Layout"
    /\ pendingHref = NoItem
    /\ inflight = {}
    /\ nextId = 1
    /\ loginPc = "idle"
    /\ loading = FALSE
    /\ lastExchange = [id |-> 0]
    /\ lastNav = [to |-> NoItem, flip |-> FALSE]
    /\ InitUi

otherDrawerVars == <<page, loginPc, loading, lastExchange, lastNav, pathname,
                     err, dflt, now, registryVars, menuVars, apiPage, latest,
                     uploader, deptVars, tabVars>>

\* the permission button of a role's row; the open drawer covers the table
OpenPermissionDrawer ==
    /\ ~drawer.permissionDrawerVisible
    /\ events < MaxEvents
    /\ events' = events + 1
    /\ \E r \in Roles :
          LET role == [id |-> r, name |-> "role " \o ToString(r)]
          IN  /\ drawer' = handleOpenPermissionDrawer(drawer, role)
              /\ inflight' = inflight \cup {Request("getAuthorized",
                                  "handleOpenPermissionDrawer", role)}
    /\ nextId' = nextId + 1
    /\ out' = [fn |-> "handleOpenPermissionDrawer"]
    /\ UNCHANGED <<rolePerms, storageVars, otherDrawerVars>>

\* the answer to getAuthorized(role.id)
DeliverAuthorized ==
    \E req \in Sent("getAuthorized") :
      \E outcome \in AuthorizedOutcomes(req.params.id) :
        LET r == responseInterceptor(outcome, Store)
        IN  /\ Intercepted(r)
            /\ drawer' = handleOpenPermissionDrawerSettled(drawer, req.params, r)
            /\ inflight' = inflight \ {req}
            /\ out' = [fn |-> "handleOpenPermissionDrawer", settle |-> r.settle,
                       id |-> req.params.id]
            /\ UNCHANGED <<rolePerms, events, nextId, otherDrawerVars>>

\* the tree of the menus is checked: onCheck={setSelectedMenus}
OnCheck ==
    /\ drawer.permissionDrawerVisible
    /\ \E keys \in SUBSET {ToString(m) : m \in MenuIds} :
          /\ keys # drawer.selectedMenus
          /\ drawer' = [drawer EXCEPT !.selectedMenus = keys]
    /\ out' = [fn |-> "onCheck"]
    /\ UNCHANGED <<rolePerms, events, inflight, nextId, storageVars,
                   otherDrawerVars>>

\* an API of the list is clicked
ToggleApi ==
    /\ drawer.permissionDrawerVisible
    /\ \E a \in ApiInfos :
          drawer' = [drawer EXCEPT !.selectedApis =
                        IF \E s \in @ : s.id = a.id
                        THEN {s \in @ : s.id # a.id}
                        ELSE @ \cup {a}]
    /\ out' = [fn |-> "toggleApi"]
    /\ UNCHANGED <<rolePerms, events, inflight, nextId, storageVars,
                   otherDrawerVars>>

\* onClose and the cancel button
CloseDrawer ==
    /\ drawer.permissionDrawerVisible
    /\ drawer' = [drawer EXCEPT !.permissionDrawerVisible = FALSE]
    /\ out' = [fn |-> "onClose"]
    /\ UNCHANGED <<rolePerms, events, inflight, nextId, storageVars,
                   otherDrawerVars>>

\* the save button; it ignores clicks while permissionLoading
SavePermission ==
    /\ drawer.permissionDrawerVisible
    /\ ~drawer.permissionLoading
    /\ events < MaxEvents
    /\ events' = events + 1
    /\ drawer' = [drawer EXCEPT !.permissionLoading = TRUE]
    /\ inflight' = inflight \cup {Request("updateAuthorized",
                        "handleSavePermission", updateAuthorizedParams(drawer))}
    /\ nextId' = nextId + 1
    /\ out' = [fn |-> "handleSavePermission"]
    /\ UNCHANGED <<rolePerms, storageVars, otherDrawerVars>>

\* the answer to updateAuthorized: the backend stores what was sent, or fails
DeliverUpdateAuthorized ==
    \E req \in Sent("updateAuthorized"), outcome \in PlainOutcomes :
        LET r == responseInterceptor(outcome, Store)
        IN  /\ Intercepted(r)
            /\ drawer' = handleSavePermissionSettled(drawer, r)
            /\ rolePerms' = IF r.settle = "resolve"
                            THEN [rolePerms EXCEPT ![req.params.id] =
                                     [menus |-> req.params.menu_ids,
                                      apis |-> req.params.api_infos]]
                            ELSE rolePerms
            /\ inflight' = inflight \ {req}
            /\ out' = [fn |-> "handleSavePermission", settle |-> r.settle]
            /\ UNCHANGED <<events, nextId, otherDrawerVars>>

NextDrawer ==
    \/ OpenPermissionDrawer
    \/ DeliverAuthorized
    \/ OnCheck
    \/ ToggleApi
    \/ CloseDrawer
    \/ SavePermission
    \/ DeliverUpdateAuthorized

SpecDrawer == InitDrawerSpec /\ [][NextDrawer]_vars

---------------------------------------------------------------------------
(* react-web/src/components/Layout/index.jsx: the tabs of the Layout *)

\* the keys of the menu items and of the user menu
TabKeys == {"/dashboard", "/system/users", "/system/roles", "/system/menus",
            "/profile"}

\* breadcrumbNameMap[key] || key
TabLabel(key) == IF key = "/profile" THEN "profile" ELSE key

\* the tabs and the active tab as a handler sees them
TabState == [tabs |-> tabs, activeTab |-> activeTab]

\* tabs.filter(tab => tab.key !== targetKey)
FilterTabs(ts, targetKey) ==
    SelectSeq(ts, LAMBDA tab : tab.key # targetKey)

\* fault variant of addTab: the tab is appended whether or not it exists
addTab_NoFind(st, key, label) ==
    [tabs |-> Append(st.tabs, [key |-> key, label |-> label, closable |-> TRUE]),
     activeTab |-> key, navigate |-> <<key>>]

\* navigate holds the argument of the call of navigate, if any
addTab(st, key, label) ==
    LET existingTab == \E i \in 1..Len(st.tabs) : st.tabs[i].key = key
    IN  [tabs |-> IF ~existingTab
                  THEN Append(st.tabs, [key |-> key, label |-> label,
                                        closable |-> TRUE])
                  ELSE st.tabs,
         activeTab |-> key, navigate |-> <<key>>]

removeTab(st, targetKey) ==
    IF targetKey = "/dashboard"
    THEN [tabs |-> st.tabs, activeTab |-> st.activeTab, navigate |-> <<>>]
    ELSE LET newTabs == FilterTabs(st.tabs, targetKey)
         IN  IF st.activeTab = targetKey
             THEN LET lastTab == newTabs[Len(newTabs)]
                  IN  [tabs |-> newTabs, activeTab |-> lastTab.key,
                       navigate |-> <<lastTab.key>>]
             ELSE [tabs |-> newTabs, activeTab |-> st.activeTab,
                   navigate |-> <<>>]

handleTabChange(st, key) ==
    [tabs |-> st.tabs, activeTab |-> key, navigate |-> <<key>>]

\* the location after the handler's navigate, if it called it
TabNavigated(r) ==
    IF r.navigate = <<>> THEN [pathname |-> pathname, page |-> page]
    ELSE resolveRoute(r.navigate[1], token)

\* useEffect(() => setActiveTab(location.pathname), [location.pathname]):
\* it runs after the render in which the pathname changed
locationEffect(active, before, after) ==
    IF after # before THEN after ELSE active

InitTabsSpec ==
    /\ err = [message |-> "Network Error"]
    /\ dflt = "caller default"
    /\ now = 0
    /\ out = [fn |-> "none"]
    /\ token = "t1"
    /\ userInfo = "u1"
    /\ pathname = "/dashboard"
    /\ page = "Layout"
    /\ pendingHref = NoItem
    /\ inflight = {}
    /\ nextId = 1
    /\ loginPc = "idle"
    /\ loading = FALSE
    /\ lastExchange = [id |-> 0]
    /\ lastNav = [to |-> NoItem, flip |-> FALSE]
    /\ InitUi

otherTabVars == <<token, userInfo, pendingHref, inflight, nextId, loginPc, loading,
                  lastExchange, lastNav, err, dflt, now, registryVars, menuVars,
                  pageVars, deptVars, drawerVars>>

\* a handler of the tabs has run, and the effects of the render after it
TabHandled(r, fn, key) ==
    LET to == TabNavigated(r)
    IN  /\ page = "Layout"
        /\ tabs' = r.tabs
        /\ pathname' = to.pathname
        /\ page' = to.page
        /\ activeTab' = locationEffect(r.activeTab, pathname, to.pathname)
        /\ out' = [fn |-> fn, key |-> key, before |-> tabs]
        /\ UNCHANGED otherTabVars

\* a click on an item of the menu or on the profile item of the user menu
AddTab ==
    \E key \in TabKeys : TabHandled(addTab(TabState, key, TabLabel(key)), "addTab", key)

\* the remove icon of a tab: onEdit(targetKey, 'remove')
RemoveTab ==
    \E i \in 1..Len(tabs) :
        TabHandled(removeTab(TabState, tabs[i].key), "removeTab", tabs[i].key)

\* a click on a tab
HandleTabChange ==
    \E i \in 1..Len(tabs) :
        TabHandled(handleTabChange(TabState, tabs[i].key), "handleTabChange",
                   tabs[i].key)

\* the user opens or reloads a URL of the application: the Layout mounts
\* with its initial state and its effects run
MountLayout ==
    \E path \in Paths \cup TabKeys :
        LET to == resolveRoute(path, token)
        IN  /\ pathname' = to.pathname
            /\ page' = to.page
            /\ tabs' = InitTabs
            /\ activeTab' = IF to.page = "Layout" THEN to.pathname
                            ELSE "/dashboard"
            /\ out' = [fn |-> "mount", key |-> path, before |-> InitTabs]
            /\ UNCHANGED otherTabVars

NextTabs ==
    \/ AddTab
    \/ RemoveTab
    \/ HandleTabChange
    \/ MountLayout

SpecTabs == InitTabsSpec /\ [][NextTabs]_vars

---------------------------------------------------------------------------
(* The two route tables, resolved one <Navigate> at a time *)

\* number of <Navigate> elements followed for one URL
MaxRedirects == 4

\* the route tables: web/src/router/index.jsx and the one of react-web
Routers == {"web", "react-web"}

\* the URLs a user opens
RoutePaths == Paths \cup TabKeys \cup {"/system/apis", "/system/departments",
                                      "/audit", "/upload"}

\* the paths of the children of the '/' route of react-web, which has no
\* '*' child
ReactChildren == {"/", "/dashboard", "/system/users", "/system/roles",
                  "/system/menus", "/system/apis", "/system/departments",
                  "/audit", "/upload", "/profile"}

\* one match of the route table of react-web; its top-level '*' route
\* renders the 404 element without a guard
routeStepReact(path, tok) ==
    IF path = "/login" THEN LoginRedirect(tok)
    ELSE IF path \in ReactChildren
    THEN ProtectedRoute(tok,
             IF path = "/" THEN [kind |-> "redirect", to |-> "/dashboard"]
             ELSE [kind |-> "render", page |-> "Layout"])
    ELSE [kind |-> "render", page |-> "NotFound"]

\* the element the router r matches at path
Match(r, path, tok) ==
    IF r = "web" THEN routeStep(path, tok) ELSE routeStepReact(path, tok)

\* what is on the screen for a match: a page, or a <Navigate> about to act
Element(m) == IF m.kind = "render" THEN m.page ELSE "Navigate"

InitRoute ==
    /\ err = [message |-> "Network Error"]
    /\ dflt = "caller default"
    /\ now = 0
    /\ \E r \in Routers : out = [fn |-> "router", router |-> r,
                                 hops |-> <<"/login">>]
    /\ token = NoItem
    /\ userInfo = NoItem
    /\ pathname = "/login"
    /\ page = "Login"
    /\ pendingHref = NoItem
    /\ inflight = {}
    /\ nextId = 1
    /\ loginPc = "idle"
    /\ loading = FALSE
    /\ lastExchange = [id |-> 0]
    /\ lastNav = [to |-> NoItem, flip |-> FALSE]
    /\ InitUi

otherRouteVars == <<userInfo, pendingHref, inflight, nextId, loginPc, loading,
                    lastExchange, lastNav, err, dflt, now, uiVars>>

\* the user opens a URL: the router matches it
OpenUrl ==
    /\ page # "Navigate"
    /\ \E path \in RoutePaths :
          /\ pathname' = path
          /\ page' = Element(Match(out.router, path, token))
          /\ out' = [out EXCEPT !.hops = <<path>>]
    /\ UNCHANGED <<token, otherRouteVars>>

\* the <Navigate to=... replace> on the screen acts: the location changes
\* and the router matches it
FollowNavigate ==
    /\ page = "Navigate"
    /\ Len(out.hops) <= MaxRedirects
    /\ LET to == Match(out.router, pathname, token).to
       IN  /\ pathname' = to
           /\ page' = Element(Match(out.router, to, token))
           /\ out' = [out EXCEPT !.hops = Append(@, to)]
    /\ UNCHANGED <<token, otherRouteVars>>

\* localStorage gets a token (a login) or loses it (a logout, a 401)
SetToken ==
    /\ page # "Navigate"
    /\ token' = IF token = NoItem THEN "t1" ELSE NoItem
    /\ UNCHANGED <<pathname, page, out, otherRouteVars>>

NextRoute ==
    \/ OpenUrl
    \/ FollowNavigate
    \/ SetToken

SpecRoute == InitRoute /\ [][NextRoute]_vars

\* a mounted <Navigate> navigates in an effect, which React always runs
SpecRouteFair == SpecRoute /\ WF_vars(FollowNavigate)

---------------------------------------------------------------------------
(* Properties of the error functions, checked under SpecFn *)

\* the input error carries a response whose body has the field f
BodyHas(f) ==
    /\ Has(err, "response")
    /\ Has(err.response, "data")
    /\ Has(err.response.data, f)

\* C2: for an error that carries a response, getErrorType maps the status to
\* exactly one type: 401, 403 to auth_error; 400, 422, 409, 412 to
\* business_error; 500, 502, 503, 504 to system_error; any other status to
\* business_error.
C2_StatusClassification ==
    (out.fn = "getErrorType" /\ Has(err, "response")) =>
        LET s == err.response.status
        IN  /\ s \in {401, 403} => out.val = AUTH_ERROR
            /\ s \in {400, 422, 409, 412} => out.val = BUSINESS_ERROR
            /\ s \in {500, 502, 503, 504} => out.val = SYSTEM_ERROR
            /\ s \notin {401, 403, 400, 422, 409, 412, 500, 502, 503, 504}
                  => out.val = BUSINESS_ERROR

\* an unlisted 5xx status was classified, and fell to the default type
C2_Witness ==
    /\ out.fn = "getErrorType"
    /\ Has(err, "response")
    /\ err.response.status = 501
    /\ out.val = BUSINESS_ERROR

\* C3: an error without a response object is network_error for getErrorType
\* and for parseError, whatever other fields it carries, and its normalized
\* form has code 0.
C3_NoResponseIsNetworkError ==
    ~Has(err, "response") =>
        /\ out.fn = "getErrorType" => out.val = NETWORK_ERROR
        /\ out.fn = "parseError" =>
              /\ out.val.type = NETWORK_ERROR
              /\ out.val.code = 0

\* an error with a status and a body of its own, but no response, was parsed
C3_Witness ==
    /\ out.fn = "parseError"
    /\ ~Has(err, "response")
    /\ Has(err, "status")
    /\ Has(err, "data")
    /\ out.val.type = NETWORK_ERROR

\* C8, as claimed: every body code other than 200 makes isBusinessError true
\* and makes the response interceptor reject.
C8_AnyCodeBut200IsError ==
    (BodyHas("code") /\ err.response.data.code # 200) =>
        /\ out.fn = "isBusinessError" => out.val = TRUE
        /\ out.fn = "responseInterceptor" => out.val = "reject"

\* C8, amended: every body code other than 200 and 0 makes isBusinessError
\* true and makes the response interceptor reject, also when the HTTP status
\* is 200; the body code 0 counts as success like 200.
C8_CodeBut200And0IsError ==
    /\ (BodyHas("code") /\ err.response.data.code \notin {200, 0}) =>
          /\ out.fn = "isBusinessError" => out.val = TRUE
          /\ out.fn = "responseInterceptor" => out.val = "reject"
    /\ (BodyHas("code") /\ err.response.data.code = 0
           /\ err.response.status = 200) =>
          /\ out.fn = "isBusinessError" => out.val = FALSE
          /\ out.fn = "responseInterceptor" => out.val = "resolve"

\* an HTTP 200 response with body code 422 was rejected by the interceptor
C8_Witness ==
    /\ out.fn = "responseInterceptor"
    /\ BodyHas("code")
    /\ err.response.status = 200
    /\ err.response.data.code = 422
    /\ out.val = "reject"

\* C9, as claimed: isBusinessSuccess is true for every response whose body
\* code is 200.
C9_Code200IsSuccess ==
    (out.fn = "isBusinessSuccess" /\ BodyHas("code")
        /\ err.response.data.code = 200) => out.val = TRUE

\* C9, amended: isBusinessSuccess is true for every response with an HTTP
\* status from 200 to 299 whose body code is 200, and false when the HTTP
\* status is outside that range.
C9_Code200On2xxIsSuccess ==
    (out.fn = "isBusinessSuccess" /\ BodyHas("code")
        /\ err.response.data.code = 200) =>
            (out.val = (err.response.status \in 200..299))

\* a 201 response with body code 200 was found a business success
C9_Witness ==
    /\ out.fn = "isBusinessSuccess"
    /\ BodyHas("code")
    /\ err.response.data.code = 200
    /\ err.response.status = 201
    /\ out.val = TRUE

\* C10: when the response body has a non-empty msg, the message produced by
\* extractErrorMessage and by parseError is that msg, whatever message,
\* detail, the status-code map and the caller's default offer.
C10_BackendMsgFirst ==
    (BodyHas("msg") /\ err.response.data.msg # "") =>
        /\ out.fn = "extractErrorMessage" => out.val = err.response.data.msg
        /\ out.fn = "parseError" => out.val.message = err.response.data.msg

\* msg won over message, detail and the map entry of status 401
C10_Witness ==
    /\ out.fn = "parseError"
    /\ BodyHas("msg") /\ BodyHas("message") /\ BodyHas("detail")
    /\ err.response.data.msg = "backend msg"
    /\ err.response.status = 401
    /\ out.val.message = "backend msg"

\* the input error carries a response whose body offers no msg, message or detail
NoBackendMessage ==
    /\ Has(err, "response")
    /\ Has(err.response, "data") =>
          /\ ~TruthyStr(err.response.data, "msg")
          /\ ~TruthyStr(err.response.data, "message")
          /\ ~TruthyStr(err.response.data, "detail")

\* C11, as claimed: whenever the response offers none of msg, message and
\* detail, a response with no body at all included, and the status has an
\* entry in the status-code map, extractErrorMessage returns that entry; it
\* returns the caller's default only when the map has no entry for the status.
C11_MapBeforeDefault ==
    (out.fn = "extractErrorMessage" /\ NoBackendMessage) =>
        IF err.response.status \in DOMAIN ERROR_CODE_MAP
        THEN out.val = ERROR_CODE_MAP[err.response.status]
        ELSE out.val = dflt

\* C11, amended: for a response that has a body offering none of msg, message
\* and detail, extractErrorMessage returns the map entry of the status when
\* there is one and the caller's default otherwise; for a response with no
\* body it returns the caller's default whatever the status.
C11_MapBeforeDefaultWithBody ==
    (out.fn = "extractErrorMessage" /\ NoBackendMessage) =>
        IF Has(err.response, "data")
              /\ err.response.status \in DOMAIN ERROR_CODE_MAP
        THEN out.val = ERROR_CODE_MAP[err.response.status]
        ELSE out.val = dflt

\* a 404 whose body has no message of its own got the map entry, not the default
C11_Witness ==
    /\ out.fn = "extractErrorMessage"
    /\ NoBackendMessage
    /\ Has(err.response, "data")
    /\ err.response.status = 404
    /\ out.val = ERROR_CODE_MAP[404]
    /\ out.val # dflt

\* the error page the application shows after the step: the route given to
\* router.replace, or the document window.location.href was set to
ShownPage == IF pendingHref # NoItem THEN pendingHref ELSE pathname

\* the interceptor applied last handled an error response
ErrorResponseHandled ==
    /\ out.fn \in {"responseInterceptor", "resReject", "resRejectV2"}
    /\ Has(err, "response")
    /\ ~(err.response.status >= 200 /\ err.response.status < 300)

\* C16, as claimed: an error response with status 403, 404 or 5xx routes the
\* user to the error page /403, /404 or /500 respectively, whichever
\* interceptor handles it.
C16_ErrorPageByStatus ==
    ErrorResponseHandled =>
        LET status == err.response.status
        IN  /\ status = 403 => ShownPage = "/403"
            /\ status = 404 => ShownPage = "/404"
            /\ status >= 500 => ShownPage = "/500"

\* C16, amended: only the first variant of resReject opens an error page, and
\* it goes by code = data.code ?? status, not by the status: /403 for code
\* 403, /404 for code 404, /500 for every code from 500 up, no page for any
\* other code. The second variant of resReject and the response interceptor
\* of request.js open no error page for any error response.
C16_ErrorPageByCodeFirstVariantOnly ==
    ErrorResponseHandled =>
        LET code == IF BodyHas("code") THEN err.response.data.code
                    ELSE err.response.status
        IN  /\ out.fn = "resReject" =>
                  /\ code = 403 => ShownPage = "/403"
                  /\ code = 404 => ShownPage = "/404"
                  /\ code >= 500 => ShownPage = "/500"
                  /\ (code # 403 /\ code # 404 /\ code < 500) =>
                        ShownPage = out.pathBefore
            /\ out.fn = "resRejectV2" => ShownPage = out.pathBefore
            /\ out.fn = "responseInterceptor" =>
                  ShownPage \notin {"/403", "/404", "/500"}

\* the first variant of resReject opened /500 on a 502 without a body
C16_Witness ==
    /\ out.fn = "resReject"
    /\ Has(err, "response")
    /\ err.response.status = 502
    /\ ~Has(err.response, "data")
    /\ pathname = "/500"
    /\ out.pathBefore = "/dashboard"

\* the exchange err brought no response, or a response with an error status
ErrorOutcome ==
    ~(Has(err, "response") /\ err.response.status >= 200
                           /\ err.response.status < 300)

\* C22: an exchange ends either resolved with the data of a successful
\* response or rejected with an error of one of the four error kinds; an
\* exchange that failed (no response, or an error status) is rejected on
\* every path of the interceptors, the 401 path whose logout throws included.
C22_ResolvedOrRejectedOnce ==
    out.fn \in {"responseInterceptor", "resReject", "resRejectV2"} =>
        /\ out.val \in {"resolve", "reject"}
        /\ ErrorOutcome => /\ out.val = "reject"
                           /\ out.value # <<>>
        /\ out.val = "reject" /\ out.fn = "responseInterceptor" =>
              getErrorType(out.value[1]) \in ERROR_TYPES
        /\ out.val = "reject" /\ out.fn = "resRejectV2" =>
              out.value[1].type \in ERROR_TYPES
        /\ out.val = "resolve" /\ out.fn = "responseInterceptor" =>
              \/ err.response.responseType = "blob"
              \/ /\ isBusinessSuccess(err.response)
                 /\ out.value = DataOf(err.response)

---------------------------------------------------------------------------
(* Properties of the error handlers, checked under SpecUi *)

\* the handler registered last for the type among the calls of log, if any
LastRegistered(log, type) ==
    LET I == {i \in 1..Len(log) : log[i].op = "register" /\ log[i].type = type}
    IN  IF I = {} THEN <<>>
        ELSE <<log[CHOOSE i \in I : \A j \in I : j <= i].handler>>

\* the default handler set last among the calls of log, if any
LastDefault(log) ==
    LET I == {i \in 1..Len(log) : log[i].op = "setDefault"}
    IN  IF I = {} THEN <<>>
        ELSE <<log[CHOOSE i \in I : \A j \in I : j <= i].handler>>

\* C12: after any register and setDefault calls, handle(error, customHandler)
\* invokes exactly one handler and returns what it returns: customHandler if
\* it is a function, otherwise the handler registered last for error.type,
\* otherwise the default handler set last; when there is none of these it
\* invokes no handler and returns the error itself.
C12_HandlerPrecedence ==
    out.fn = "handle" =>
        LET byType == LastRegistered(regLog, out.error.type)
            byDefault == LastDefault(regLog)
            expected == IF out.custom.typeof = "function" THEN <<out.custom.name>>
                        ELSE IF byType # <<>> THEN byType
                        ELSE byDefault
        IN  /\ out.invoked = expected
            /\ expected # <<>> =>
                  out.val = [returnedBy |-> expected[1], arg |-> out.error]
            /\ expected = <<>> => out.val = out.error

\* a type registered twice and a default set: handle called the handler
\* registered second, not the first and not the default
C12_Witness ==
    /\ out.fn = "handle"
    /\ out.custom = Null
    /\ Len(regLog) = 3
    /\ regLog[1] = [op |-> "register", type |-> out.error.type, handler |-> "h1"]
    /\ regLog[2] = [op |-> "setDefault", handler |-> "h1"]
    /\ regLog[3] = [op |-> "register", type |-> out.error.type, handler |-> "h2"]
    /\ out.invoked = <<"h2">>

---------------------------------------------------------------------------
(* Properties of the API calls of a page, checked under SpecCall *)

\* C18: nothing is retried: a call is put on the wire once, whether it is
\* wrapped by createApiWrapper or not; after its answer, failure of any kind
\* included, it is not in flight again and no other request was issued for it.
C18_NoRetry ==
    /\ \A q \in inflight : q.sends = 1
    /\ out.fn \in {"createApiWrapper", "handleBusinessError", "await"} =>
          /\ out.sends = 1
          /\ \A q \in inflight : q.id # out.id
    /\ Cardinality(inflight) < nextId

\* a wrapped call failed with a network error and is not in flight any more,
\* while the call made after it still is
C18_Witness ==
    /\ out.fn = "createApiWrapper"
    /\ out.id = 1
    /\ out.custom = Null
    /\ out.settle = "reject"
    /\ out.val[1].type = NETWORK_ERROR
    /\ \E q \in inflight : q.id = 2
    /\ Cardinality(inflight) = 1

C20_WrapperOutcomes ==
    out.fn = "createApiWrapper" =>
        IF out.result.settle = "resolve"
        THEN /\ out.settle = "resolve"
             /\ out.val = out.result.value
             /\ out.globalCalls = <<>> /\ out.customCalls = <<>>
             /\ out.invoked = <<>>
        ELSE LET standardError == parseError(out.result.value[1], dflt)
             IN  /\ out.custom = Null =>
                       /\ out.globalCalls = <<standardError>>
                       /\ out.customCalls = <<>>
                       /\ out.settle = "reject"
                       /\ out.val = <<standardError>>
                       /\ Len(out.invoked) <= 1
                       /\ handlers # <<>> =>
                             out.invoked = <<handlers[standardError.type]>>
                 /\ out.custom.typeof = "function" =>
                       /\ out.customCalls = <<standardError>>
                       /\ out.settle = "resolve"
                       /\ out.val = <<[returnedBy |-> out.custom.name,
                                       arg |-> standardError]>>
                       /\ out.globalCalls = <<>>
                       /\ out.invoked = <<>>

\* with the handlers of errorInit.js registered, a wrapped call without custom
\* handler failed with 500: the system handler ran once and the normalized
\* error was thrown
C20_Witness ==
    /\ out.fn = "createApiWrapper"
    /\ out.custom = Null
    /\ out.settle = "reject"
    /\ out.invoked = <<"systemHandler">>
    /\ out.val[1].type = SYSTEM_ERROR
    /\ out.val[1].code = 500
    /\ out.globalCalls = out.val

---------------------------------------------------------------------------
(* Properties of the menu builders, checked under SpecMenu *)

\* the keys of a tree of nodes, parents before children
RECURSIVE Keys(_)
Keys(items) ==
    IF items = <<>> THEN <<>>
    ELSE LET node == Head(items)
         IN  <<node.key>>
             \o (IF Has(node, "children") THEN Keys(node.children) ELSE <<>>)
             \o Keys(Tail(items))

NoDuplicates(seq) ==
    \A i, j \in 1..Len(seq) : i # j => seq[i] # seq[j]

\* no node is, by its key, among its own descendants
RECURSIVE Acyclic(_)
Acyclic(items) ==
    \A i \in 1..Len(items) :
        Has(items[i], "children") =>
            /\ \A k \in 1..Len(Keys(items[i].children)) :
                  Keys(items[i].children)[k] # items[i].key
            /\ Acyclic(items[i].children)

\* the number of records in a nested menu list
RECURSIVE CountRecords(_)
CountRecords(menuData) ==
    IF menuData = <<>> THEN 0
    ELSE 1 + CountRecords(Head(menuData).children) + CountRecords(Tail(menuData))

\* the route of a record: the paths along its parent_id chain, joined by '/'
RECURSIVE FullRoute(_, _)
FullRoute(ms, menu) ==
    IF menu.parent_id = 0 THEN menu.path
    ELSE FullRoute(ms, ms[menu.parent_id]) \o "/" \o menu.path

\* the routes of the records differ from each other and from the dashboard's
RoutesDistinct(ms) ==
    /\ \A i, j \in 1..Len(ms) :
          i # j => FullRoute(ms, ms[i]) # FullRoute(ms, ms[j])
    /\ \A i \in 1..Len(ms) : FullRoute(ms, ms[i]) # DashboardItem.key

\* C13, as claimed: for every menu list whose parent_id chains form a tree,
\* the navigation menu (dashboard entry first) and the menu tree of the role
\* drawer have no two nodes with the same key and no cycle.
C13_NoDuplicateKeysNoCycle ==
    /\ NoDuplicates(Keys(menuItems))
    /\ Acyclic(menuItems)
    /\ NoDuplicates(Keys(buildMenuTree(menus, 0)))
    /\ Acyclic(buildMenuTree(menus, 0))

\* C13, amended: for every menu list whose parent_id chains form a tree, each
\* builder yields one node per record and no cycle; the keys of buildMenuTree
\* never repeat; the keys of the navigation menu do not repeat when the routes
\* of the records differ from each other and from '/dashboard'.
C13_NoCycleAndKeysDistinctAsRoutes ==
    /\ Acyclic(menuItems)
    /\ (out.fn = "fetchUserMenu" /\ out.settle = "resolve") =>
          Len(Keys(menuItems)) = 1 + CountRecords(out.menuData)
    /\ RoutesDistinct(menus) => NoDuplicates(Keys(menuItems))
    /\ LET tree == buildMenuTree(menus, 0)
       IN  /\ NoDuplicates(Keys(tree))
           /\ Acyclic(tree)
           /\ Len(Keys(tree)) = Len(menus)

\* three records in one chain, sibling-free and three levels deep, were
\* fetched and converted
C13_Witness ==
    /\ Len(menus) = 3
    /\ menus[2].parent_id = 1
    /\ menus[3].parent_id = 2
    /\ RoutesDistinct(menus)
    /\ out.fn = "fetchUserMenu"
    /\ Len(Keys(menuItems)) = 4
    /\ NoDuplicates(Keys(menuItems))
    /\ Len(Keys(buildMenuTree(menus, 0))) = 3

\* the keys of items follow the records of menuData: a top-level key is the
\* record's path, a child's key its parent's key, '/', and the child's path
RECURSIVE KeysJoinPaths(_, _, _, _)
KeysJoinPaths(items, menuData, top, parentKey) ==
    /\ Len(items) = Len(menuData)
    /\ \A i \in 1..Len(items) :
          /\ items[i].key = IF top THEN menuData[i].path
                             ELSE parentKey \o "/" \o menuData[i].path
          /\ IF Len(menuData[i].children) > 0
             THEN /\ Has(items[i], "children")
                  /\ KeysJoinPaths(items[i].children, menuData[i].children,
                                   FALSE, items[i].key)
             ELSE ~Has(items[i], "children")

\* C14: in the converted menu tree the key of every node is its parent's key
\* followed by '/' and the node's own path, and the key of a top-level node is
\* its own path, at every depth.
C14_KeyIsJoinOfPaths ==
    (out.fn = "fetchUserMenu" /\ out.settle = "resolve") =>
        KeysJoinPaths(Tail(menuItems), out.menuData, TRUE, "")

\* a grandchild's key joins three paths
C14_Witness ==
    /\ out.fn = "fetchUserMenu"
    /\ Len(menuItems) = 2
    /\ Has(menuItems[2], "children")
    /\ Has(menuItems[2].children[1], "children")
    /\ menuItems[2].children[1].children[1].key = "/system/user/user"
    /\ out.menuData[1].children[1].children[1].path = "user"

\* C15: when fetching the user menu fails, fetchUserMenu does not throw, the
\* shell stays rendered, and the navigation menu is exactly one entry, the
\* dashboard.
C15_FailedFetchLeavesDashboard ==
    (out.fn = "fetchUserMenu" /\ out.settle = "reject") =>
        /\ ~out.thrown
        /\ page = "Layout"
        /\ menuItems = <<DashboardItem>>

\* the backend holds menu records, the fetch failed with 401 and the menu is
\* the dashboard alone
C15_Witness ==
    /\ out.fn = "fetchUserMenu"
    /\ out.settle = "reject"
    /\ Len(menus) = 2
    /\ token = NoItem
    /\ menuItems = <<DashboardItem>>

---------------------------------------------------------------------------
(* Properties of the long operations, checked under SpecPageFair *)

\* handleRefreshApis has started and not yet returned
RefreshRunning == \E req \in inflight : req.by = "handleRefreshApis"

\* handleFileChange has started an upload and not yet returned
UploadRunning == Sent("uploadImage") # {}

\* C21: refreshLoading is set exactly while handleRefreshApis runs and
\* isUploading exactly while an upload runs, and each flag that is set is
\* cleared later, whether the operation succeeded or failed.
C21_LoadingFlagHeldAndReleased ==
    /\ [](apiPage.refreshLoading <=> RefreshRunning)
    /\ [](uploader.isUploading <=> UploadRunning)
    /\ (apiPage.refreshLoading ~> ~apiPage.refreshLoading)
    /\ (uploader.isUploading ~> ~uploader.isUploading)

\* refresh() failed and its flag is released while an upload shows its flag
C21_Witness ==
    /\ out.fn = "handleRefreshApis"
    /\ Has(out, "settle")
    /\ out.settle = "reject"
    /\ ~apiPage.refreshLoading
    /\ uploader.isUploading
    /\ UploadRunning

---------------------------------------------------------------------------
(* Properties of the list of the APIs, checked under SpecList *)

\* what the page displays of the list
Displayed ==
    [apis |-> apiPage.apis, total |-> apiPage.total,
     currentPage |-> apiPage.currentPage, pageSize |-> apiPage.pageSize]

\* what the page displays when it shows the answer to getList(params)
DisplayOf(params) ==
    [apis |-> ListBody(params, TRUE).data, total |-> ListBody(params, TRUE).total,
     currentPage |-> params.page, pageSize |-> params.page_size]

\* C24: once every list response has arrived, rows, total, current page and
\* page size are those of the list request issued last (here: when that
\* request succeeded).
C24_LatestRequestWins ==
    (Sent("getList") = {} /\ latest.id # 0 /\ latest.settled = "resolve")
        => Displayed = DisplayOf(latest.params)

---------------------------------------------------------------------------
(* Properties of the department page, checked under SpecDept *)

\* the ids of all nodes of a tree of options
RECURSIVE OptionIds(_)
OptionIds(nodes) ==
    IF nodes = <<>> THEN {}
    ELSE {Head(nodes).id}
         \cup (IF HasChildren(Head(nodes)) THEN OptionIds(Head(nodes).children)
               ELSE {})
         \cup OptionIds(Tail(nodes))

\* department d and the departments below it, by the nesting of the tree
RECURSIVE SubtreeIds(_, _)
SubtreeIds(nodes, d) ==
    IF nodes = <<>> THEN {}
    ELSE (IF Head(nodes).id = d THEN OptionIds(<<Head(nodes)>>)
          ELSE IF HasChildren(Head(nodes)) THEN SubtreeIds(Head(nodes).children, d)
          ELSE {})
         \cup SubtreeIds(Tail(nodes), d)

\* C23: while department d is open for editing (and its parent can be
\* chosen), the parent options offered hold neither d nor a department below
\* d; while the add form is open, the options are the complete tree.
C23_EditOptionsExcludeSubtree ==
    /\ (deptPage.modalVisible /\ deptPage.modalAction = "edit"
           /\ ~deptPage.isDisabled) =>
          LET d == deptPage.currentEditingDeptId[1]
          IN  OptionIds(deptPage.deptOption)
                 \cap ({d} \cup SubtreeIds(deptPage.allDeptOptions, d)) = {}
    /\ (deptPage.modalVisible /\ deptPage.modalAction = "add") =>
          deptPage.deptOption = deptPage.allDeptOptions

---------------------------------------------------------------------------
(* Properties of the permission drawer, checked under SpecDrawer *)

\* C25: the selections handleSavePermission submits for role R were filled
\* by R's own permission answer (and edited since), or by no answer at all;
\* never by the answer for another role.
C25_SubmittedSelectionIsOwn ==
    \A req \in Sent("updateAuthorized") :
        req.params.origin \in {<<>>, <<req.params.id>>}

---------------------------------------------------------------------------
(* Properties of the session, checked under Spec *)

\* this step completed an HTTP exchange
Delivered == lastExchange' # lastExchange /\ lastExchange'.id # 0

\* this step resolved a route
Navigated == lastNav' # lastNav

C4_AuthErrorClearsAndRedirects ==
    [][(Delivered /\ lastExchange'.type = AUTH_ERROR) =>
          /\ token' = NoItem
          /\ userInfo' = NoItem
          /\ pendingHref' = "/login" \/ pathname' = "/login"]_vars

\* C5: a 401 handled while the location is /login assigns no new location,
\* and token and userInfo are removed all the same.
C5_NoRedirectOnLogin ==
    [][(Delivered /\ lastExchange'.status = 401 /\ pathname = "/login") =>
          /\ token' = NoItem
          /\ userInfo' = NoItem
          /\ pendingHref' = pendingHref
          /\ pathname' = "/login"]_vars

\* the user-info request of a login, sent with the fresh token, got 401 on /login
C5_Witness ==
    /\ lastExchange.id # 0
    /\ lastExchange.kind = "userinfo"
    /\ lastExchange.hdr # NoItem
    /\ lastExchange.status = 401
    /\ lastExchange.pathBefore = "/login"
    /\ token = NoItem
    /\ userInfo = NoItem
    /\ pendingHref = NoItem
    /\ pathname = "/login"

\* C6, as claimed: in every state the Layout is rendered only if a token is
\* stored.
C6_LayoutOnlyWithToken ==
    page = "Layout" => token # NoItem

\* C6, amended: the gate acts when a route is resolved. Resolving a protected
\* path renders the Layout if a token is stored at that moment and ends at
\* /login otherwise; a Layout already rendered stays without a token only
\* while the redirect to /login issued by the 401 handler is pending.
C6_GateAtNavigation ==
    /\ [](page = "Layout" => (token # NoItem \/ pendingHref = "/login"))
    /\ [][(Navigated /\ IsProtected(lastNav'.to)) =>
             IF token' # NoItem
             THEN page' = "Layout" /\ IsProtected(pathname')
             ELSE page' = "Login" /\ pathname' = "/login"]_vars

\* a 401 removed the token under a rendered Layout; the redirect is pending
C6_Witness ==
    /\ page = "Layout"
    /\ token = NoItem
    /\ pendingHref = "/login"
    /\ lastExchange.id # 0
    /\ lastExchange.status = 401

\* C7: a 401 answering a request that carried a token removes token and
\* userInfo; a token appears again only when a login request succeeds; and
\* while no token is stored every resolution of a protected path ends at
\* /login.
C7_ExpiryFoundBy401 ==
    /\ [][(Delivered /\ lastExchange'.status = 401 /\ lastExchange'.hdr # NoItem) =>
             (token' = NoItem /\ userInfo' = NoItem)]_vars
    /\ [][(token = NoItem /\ token' # NoItem) =>
             /\ Delivered
             /\ lastExchange'.kind = "login"
             /\ lastExchange'.settle = "resolve"]_vars
    /\ [][(Navigated /\ token' = NoItem /\ IsProtected(lastNav'.to)) =>
             (page' = "Login" /\ pathname' = "/login")]_vars

\* after a 401 on a request sent with a token, a menu navigation went to /login
C7_Witness ==
    /\ lastExchange.id # 0
    /\ lastExchange.kind = "api"
    /\ lastExchange.status = 401
    /\ lastExchange.hdr # NoItem
    /\ token = NoItem
    /\ userInfo = NoItem
    /\ lastNav.to = "/system/users"
    /\ pathname = "/login"
    /\ page = "Login"

\* the config a call site hands to the client: axios defaults plus the flag
ConfigOf(req) ==
    [noNeedToken |-> req.noNeedToken,
     headers |-> [ContentType |-> "application/json"]]

\* C17: every request issued while a token is stored and not marked
\* noNeedToken carries the stored token in its token header, and a request
\* marked noNeedToken never has the stored token attached; this holds of the
\* request interceptor of request.js and of reqResolve alike.
C17_TokenHeaderUnlessNoNeedToken ==
    [][\A q \in inflight' \ inflight :
          LET vue == reqResolve(ConfigOf(q), token').headers
          IN  /\ q.noNeedToken =>
                    /\ q.hdr = NoItem
                    /\ ~Has(vue, "token")
              /\ (~q.noNeedToken /\ token' # NoItem) =>
                    /\ q.hdr = token'
                    /\ Has(vue, "token") /\ vue.token = token']_vars

\* a login call is in flight without a token header although the token of a
\* completed login is stored
C17_Witness ==
    /\ token # NoItem
    /\ \E q \in inflight : q.kind = "login" /\ q.noNeedToken /\ q.hdr = NoItem
    /\ userInfo # NoItem


\* C26: after a login attempt whose token request or user-info request
\* failed, localStorage holds no token, and the route guard sends
\* /dashboard to the login page.
C26_FailedLoginLeavesNoToken ==
    (/\ lastExchange.id # 0
     /\ lastExchange.kind \in {"login", "userinfo"}
     /\ lastExchange.settle = "reject")
    => /\ token = NoItem
       /\ resolveRoute("/dashboard", token).page = "Login"


\* C27: handleError called without a function as custom handler displays the
\* error message exactly once, with an empty registry as well as with the
\* handlers of initializeGlobalErrorHandler registered.
C27_DisplayedExactlyOnce ==
    (out.fn = "handleError"
     /\ ~(Truthy(out.custom) /\ out.custom.typeof = "function"))
    => out.shown = <<out.error.message>>


---------------------------------------------------------------------------
(* Properties of the tabs of the Layout, checked under SpecTabs *)

\* C28: the tab list always holds the '/dashboard' tab, which is not
\* closable, and never holds two tabs with the same key.
C28_DashboardKeptKeysDistinct ==
    /\ \E i \in 1..Len(tabs) :
          tabs[i].key = "/dashboard" /\ ~tabs[i].closable
    /\ \A i, j \in 1..Len(tabs) : tabs[i].key = tabs[j].key => i = j
    /\ (out.fn = "removeTab" /\ out.key = "/dashboard") => tabs = out.before

\* addTab was called with the key of a tab that was there, among others
C28_Witness ==
    /\ out.fn = "addTab"
    /\ \E i \in 1..Len(out.before) : out.before[i].key = out.key
    /\ out.key # "/dashboard"
    /\ Len(tabs) >= 3

\* C29: the active tab key is always the key of a tab of the list.
C29_ActiveTabIsATab ==
    page = "Layout" => \E i \in 1..Len(tabs) : tabs[i].key = activeTab


---------------------------------------------------------------------------
(* Properties of the route tables, checked under SpecRouteFair *)

\* C30: with or without a token, the resolution of a URL renders a page
\* after finitely many redirects, and visits no location twice: no cycle
\* between /login and /dashboard.
C30_ResolutionTerminates ==
    /\ [](\A i, j \in 1..Len(out.hops) : out.hops[i] = out.hops[j] => i = j)
    /\ [](Len(out.hops) <= 2)
    /\ (page = "Navigate") ~> (page # "Navigate")

\* /login opened with a token: LoginRedirect sent it to /dashboard, which
\* the guard let through
C30_Witness ==
    /\ out.hops = <<"/login", "/dashboard">>
    /\ token # NoItem
    /\ page = "Layout"

=============================================================================
